---------------------------- MODULE Spec2Model ----------------------------
(***************************************************************************)
(* A model of the data-structure core of redis-C:                          *)
(*   - the skip list            (src/src/data_structure/skip_list.c)       *)
(*   - the count-min sketch     (src/src/data_structure/count_min_sketch.c)*)
(*   - the geohash codec        (src/src/data_structure/geo_hash.c)        *)
(*   - the sketch catalog       (src/src/storage.c)                        *)
(* Each component has its own specification (SpecSL, SpecCMS, SpecGeo,     *)
(* SpecStore); the variables of the other components stay at their idle    *)
(* value.                                                                  *)
(***************************************************************************)
EXTENDS Integers, Sequences, FiniteSets, TLC

VARIABLES
    \* ---- skip list (struct SkipList and the nodes it owns) ----
    sl_heap,     \* allocated SkipListNode objects: address -> [value, level, next]
    sl_head,     \* list->head
    sl_cml,      \* list->current_max_level
    sl_last,     \* the last call on the list: [op, value, ret], in expect
                 \* what the same call returns on the set sl_set, and in
                 \* freed the values the call gave to free_value, in order
    sl_set,      \* the mathematical set the calls so far denote
    sl_failed,   \* some copy or node allocation has failed so far
    \* ---- count-min sketch (struct CountMinSketch) ----
    cms_width,           \* cms->width
    cms_depth,           \* cms->depth
    cms_bins,            \* cms->bins: index -> int32 counter
    cms_elements_added,  \* cms->elements_added (int64, as two limbs)
    cms_added,           \* how many add calls there were, per amount
    cms_removed,         \* how many remove calls there were, per amount
    cms_has_builtin,     \* the build: whether __safe_add and __safe_sub were compiled
                         \* with the overflow builtins (clang, GCC 5 and later) or
                         \* with the check of their #else branch
    cms_ones,            \* per hash vector, the add(key, 1) calls so far (while
                         \* nothing was removed)
    \* ---- geohash (a caller's GeoPoint, GeoHash and GeoBounds) ----
    geo_point,      \* the point the caller encodes, or NoPoint
    geo_precision,  \* the precision the caller asks for
    geo_hash,       \* the caller's hash: its characters (none: {NULL, 0})
    geo_call,       \* the last call: [op, ...] with its inputs
    geo_err,        \* the GeoHashError the last call returned
    geo_bounds,     \* the bounds of geo_hash, once geohash_get_bounds wrote them
    geo_trail,      \* the hashes the caller moved away from, oldest first
    geo_moves,      \* the directions of those moves
    \* ---- sketch catalog (the statics of storage.c) ----
    g_initialized,  \* g_initialized
    g_cms_storage,  \* g_cms_storage: NoList, or the list: what its head reads as
                    \* while nothing is linked, and its nodes from the head on,
                    \* each a storage_node_t [name, terminated, container]
    store_crashed,  \* the process has dereferenced a pointer to nowhere
    store_made,     \* how many CountMinSketch objects create_cms_store allocated
    store_last,     \* the last call: [op, rc] (no rc when the call crashed) and,
                    \* for create, the name, whether an entry had been created
                    \* with it, and the list before
    \* ---- a CountMinSketch of any uint32 width and depth ----
    cms_setup,      \* the sketch cms_init_by_dim was called on: [op, width, depth,
                    \* rc, bins] with bins the number of counters calloc gave
                    \* (NoBins: NULL), and the bin index computed last
    \* ---- base32 (a caller's buffers) ----
    b32,            \* [op, bytes, text, decoded]: the bytes the caller encodes
                    \* (NoBytes: none), the text it decodes (NoText: none yet)
                    \* and what base32_decode returned
    \* ---- two threads in create_cms_store ----
    race,           \* [locked, holder, pc, name, prev, rc, overlap]: whether the
                    \* callers take a mutex around the call and who holds it; per
                    \* thread where it is in create_cms_store, the name it
                    \* creates, its local prev (how many nodes its scan passed)
                    \* and what the call returned; whether a scan ended while
                    \* the other thread stood between its scan and its append
    \* ---- a second sketch that gets the updates in another order ----
    cms_replica,    \* [bins, ea, limit]: its bins and elements_added, and
                    \* whether a bin of either sketch was at a limit after a call
    \* ---- the generator of a skip list ----
    rng,            \* [rng_state, level, draws]: list->rng_state, what
                    \* random_level returned last (0: not called yet) and how
                    \* often it was called
    \* ---- the server process ----
    srv_sent        \* what process_request returned for each request handled
                    \* since the process started, in order

slVars == <<sl_heap, sl_head, sl_cml, sl_last, sl_set, sl_failed>>

cmsVars == <<cms_width, cms_depth, cms_bins, cms_elements_added,
             cms_added, cms_removed, cms_has_builtin, cms_ones>>

geoVars == <<geo_point, geo_precision, geo_hash, geo_call, geo_err, geo_bounds,
             geo_trail, geo_moves>>

storeVars == <<g_initialized, g_cms_storage, store_crashed, store_made, store_last>>

setupVars == <<cms_setup>>

b32Vars == <<b32>>

raceVars == <<race>>

serverVars == <<srv_sent>>

replicaVars == <<cms_replica>>

rngVars == <<rng>>

vars == <<slVars, cmsVars, geoVars, storeVars, setupVars, b32Vars, raceVars,
          serverVars, replicaVars, rngVars>>

\* What a call on one component leaves alone: the other components.
notSL == <<cmsVars, geoVars, storeVars, setupVars, b32Vars, raceVars,
          serverVars, replicaVars, rngVars>>
notCMS == <<slVars, geoVars, storeVars, setupVars, b32Vars, raceVars,
          serverVars, replicaVars, rngVars>>
notGeo == <<slVars, cmsVars, storeVars, setupVars, b32Vars, raceVars,
          serverVars, replicaVars, rngVars>>
notStore == <<slVars, cmsVars, geoVars, setupVars, b32Vars, raceVars, replicaVars,
             rngVars>>
notSetup == <<slVars, cmsVars, geoVars, storeVars, b32Vars, raceVars,
          serverVars, replicaVars, rngVars>>
notB32 == <<slVars, cmsVars, geoVars, storeVars, setupVars, raceVars,
          serverVars, replicaVars, rngVars>>

(***************************************************************************)
(*                               SKIP LIST                                 *)
(***************************************************************************)

\* #define MAX_LEVEL 32
MAX_LEVEL == 32

\* The null pointer.
NULL == 0

\* Values stored in the list are 1..MaxValue (a null value is NULL).
MaxValue == 3

\* Levels random_level() is let to return: 1..MaxDrawnLevel (of 1..MAX_LEVEL).
MaxDrawnLevel == 3

Values == 1..MaxValue

\* Addresses malloc can hand out: one per value and one for the head, and as
\* many spare ones.
Addresses == 1..(2 * MaxValue + 2)

\* A CompareFunc: the three-way comparison of two values.
Compare(a, b) == IF a < b THEN -1 ELSE IF a = b THEN 0 ELSE 1

\* malloc hands out any block not in use; the program never looks at an address
\* except to follow it or to compare it with NULL. The model picks the block
\* numbered after the value the node will hold (the head holds NULL), so that
\* equal lists are equal states, and the lowest spare block when that one is in
\* use.
Malloc(heap, value) ==
    IF value + 1 \notin DOMAIN heap THEN value + 1
    ELSE CHOOSE a \in Addresses \ DOMAIN heap :
             /\ a > MaxValue + 1
             /\ \A b \in Addresses \ DOMAIN heap : b > MaxValue + 1 => a <= b

CanMalloc(heap, value) ==
    \/ value + 1 \notin DOMAIN heap
    \/ \E a \in Addresses \ DOMAIN heap : a > MaxValue + 1

\* node_create: a node of the given level whose links are all null.
NodeCreate(value, level) ==
    [value |-> value, level |-> level, next |-> [l \in 0..(level - 1) |-> NULL]]

\* (mutant of Advance: an equal value is stepped over like a smaller one)
RECURSIVE AdvancePastEqual(_, _, _, _)
AdvancePastEqual(heap, current, level, value) ==
    LET next == heap[current].next[level] IN
    IF next = NULL THEN [node |-> current, hit |-> FALSE]
    ELSE LET cmp == Compare(heap[next].value, value) IN
         IF cmp <= 0 THEN AdvancePastEqual(heap, next, level, value)
         ELSE [node |-> current, hit |-> FALSE]

\* The inner while loop of contain / insert / erase at one level: advance while
\* the next value compares less; stop on an equal value (hit), a greater value
\* or the end of the chain.
RECURSIVE Advance(_, _, _, _)
Advance(heap, current, level, value) ==
    LET next == heap[current].next[level] IN
    IF next = NULL THEN [node |-> current, hit |-> FALSE]
    ELSE LET cmp == Compare(heap[next].value, value) IN
         IF cmp < 0 THEN Advance(heap, next, level, value)
         ELSE IF cmp = 0 THEN [node |-> current, hit |-> TRUE]
         ELSE [node |-> current, hit |-> FALSE]

\* (mutant of ContainWalk: the walk gives up at the first greater value instead
\* of descending a level)
ContainWalkNoDescent(heap, current, level, value) ==
    level >= 0 /\ Advance(heap, current, level, value).hit

\* skiplist_contain: the descending walk; true as soon as an equal value is met.
RECURSIVE ContainWalk(_, _, _, _)
ContainWalk(heap, current, level, value) ==
    IF level < 0 THEN FALSE
    ELSE LET r == Advance(heap, current, level, value) IN
         IF r.hit THEN TRUE
         ELSE ContainWalk(heap, r.node, level - 1, value)

SkiplistContain(heap, head, cml, value) ==
    IF value = NULL THEN FALSE
    ELSE ContainWalk(heap, head, cml - 1, value)

\* The search loop of skiplist_insert: returns at once on a duplicate, else
\* records the predecessor at every level in update_cache.
RECURSIVE InsertWalk(_, _, _, _, _)
InsertWalk(heap, current, level, value, update) ==
    IF level < 0 THEN [dup |-> FALSE, update |-> update]
    ELSE LET r == Advance(heap, current, level, value) IN
         IF r.hit THEN [dup |-> TRUE, update |-> update]
         ELSE InsertWalk(heap, r.node, level - 1, value,
                         [update EXCEPT ![level] = r.node])

\* The search loop of skiplist_erase: an equal value only breaks the inner loop;
\* the predecessor is recorded at every level.
RECURSIVE EraseWalk(_, _, _, _, _, _)
EraseWalk(heap, current, level, value, update, found) ==
    IF level < 0 THEN [found |-> found, update |-> update]
    ELSE LET r == Advance(heap, current, level, value) IN
         EraseWalk(heap, r.node, level - 1, value,
                   [update EXCEPT ![level] = r.node], found \/ r.hit)

\* update_cache before a call writes it: every entry a call reads it has written
\* earlier in the same call, so the stale content is never observed.
EmptyCache == [l \in 0..(MAX_LEVEL - 1) |-> NULL]

\* (mutant of Link: the node is linked at level 0 only)
LinkBottomOnly(heap, update, node, level, new_level) ==
    LET pred == update[0]
        h1 == [heap EXCEPT ![node].next[0] = heap[pred].next[0]]
    IN [h1 EXCEPT ![pred].next[0] = node]

\* The linking loop of skiplist_insert, level by level.
RECURSIVE Link(_, _, _, _, _)
Link(heap, update, node, level, new_level) ==
    IF level >= new_level THEN heap
    ELSE LET pred == update[level]
             h1 == [heap EXCEPT ![node].next[level] = heap[pred].next[level]]
             h2 == [h1 EXCEPT ![pred].next[level] = node]
         IN Link(h2, update, node, level + 1, new_level)

\* (mutant of Unlink: only the level-0 link is taken out)
UnlinkBottomOnly(heap, update, node, level) ==
    [heap EXCEPT ![update[0]].next[0] = heap[node].next[0]]

\* The unlinking loop of skiplist_erase, level by level.
RECURSIVE Unlink(_, _, _, _)
Unlink(heap, update, node, level) ==
    IF level >= heap[node].level THEN heap
    ELSE Unlink([heap EXCEPT ![update[level]].next[level] = heap[node].next[level]],
                update, node, level + 1)

\* free(node): the address leaves the heap.
Free(heap, node) == [a \in DOMAIN heap \ {node} |-> heap[a]]

\* (mutant of NodeDestroy: the node is freed, its value is not)
NodeDestroyKeepsValue(heap, node, free_value) ==
    [heap |-> Free(heap, node), freed |-> <<>>]

\* node_destroy(node, free_value) of an allocated node, free_value being
\* whether a free function is passed: the heap it leaves and the values
\* given to the free function.
NodeDestroy(heap, node, free_value) ==
    [heap |-> Free(heap, node),
     freed |-> IF free_value THEN <<heap[node].value>> ELSE <<>>]

\* The loop of skiplist_destroy from the node current on, for a list with a
\* free function.
RECURSIVE DestroyLoop(_, _, _, _)
DestroyLoop(heap, head, current, freed) ==
    IF current = NULL THEN [heap |-> heap, freed |-> freed]
    ELSE LET next == heap[current].next[0]
             d == NodeDestroy(heap, current, current # head)
         IN DestroyLoop(d.heap, head, next, freed \o d.freed)

\* The loop that lowers current_max_level at the end of skiplist_erase.
RECURSIVE Shrink(_, _, _)
Shrink(heap, head, cml) ==
    IF cml > 1 /\ heap[head].next[cml - 1] = NULL
    THEN Shrink(heap, head, cml - 1)
    ELSE cml

\* skiplist_create with a comparator, a free function and a copy function: the
\* head of MAX_LEVEL links, level 1, empty. (A list created without a copy
\* function behaves the same, except that its inserts have no failing copy.)
SLInit ==
    /\ sl_head = Malloc(<<>>, NULL)
    /\ sl_heap = (sl_head :> NodeCreate(NULL, MAX_LEVEL))
    /\ sl_cml = 1
    /\ sl_last = [op |-> "create", value |-> NULL, ret |-> TRUE, expect |-> TRUE,
                  freed |-> <<>>]
    /\ sl_set = {}
    /\ sl_failed = FALSE

\* (mutant of InsertResult: the level is drawn and current_max_level raised
\* before the search for a duplicate)
InsertResultLevelFirst(heap, head, cml, value, new_level, outcome) ==
    LET s == InsertWalk(heap, head, cml - 1, value, EmptyCache)
        update == [l \in 0..(MAX_LEVEL - 1) |->
                       IF l >= cml /\ l < new_level THEN head ELSE s.update[l]]
        cml2 == IF new_level > cml THEN new_level ELSE cml
    IN IF s.dup THEN [heap |-> heap, cml |-> cml2, ret |-> FALSE, failed |-> FALSE]
       ELSE IF outcome # "ok"
       THEN [heap |-> heap, cml |-> cml2, ret |-> FALSE, failed |-> TRUE]
       ELSE LET node == Malloc(heap, value)
                h0 == (node :> NodeCreate(value, new_level)) @@ heap
            IN [heap |-> Link(h0, update, node, 0, new_level),
                cml |-> cml2, ret |-> TRUE, failed |-> FALSE]

\* The state skiplist_insert leaves after the duplicate check: the level drawn,
\* current_max_level raised, then the copy and the node allocation (either may
\* fail: outcome "copy_null", "node_null"), then the links.
InsertResult(heap, head, cml, value, new_level, outcome) ==
    LET s == InsertWalk(heap, head, cml - 1, value, EmptyCache) IN
    IF s.dup THEN [heap |-> heap, cml |-> cml, ret |-> FALSE, failed |-> FALSE]
    ELSE LET update == [l \in 0..(MAX_LEVEL - 1) |->
                            IF l >= cml /\ l < new_level THEN head ELSE s.update[l]]
             cml2 == IF new_level > cml THEN new_level ELSE cml
         IN IF outcome # "ok"
            THEN [heap |-> heap, cml |-> cml2, ret |-> FALSE, failed |-> TRUE]
            ELSE LET node == Malloc(heap, value)
                     h0 == (node :> NodeCreate(value, new_level)) @@ heap
                 IN [heap |-> Link(h0, update, node, 0, new_level),
                     cml |-> cml2, ret |-> TRUE, failed |-> FALSE]

\* skiplist_insert(list, value) with random_level() returning new_level.
SkiplistInsert(value, new_level, outcome) ==
    /\ sl_head # NULL
    /\ outcome = "ok" => CanMalloc(sl_heap, value)
    /\ LET r == InsertResult(sl_heap, sl_head, sl_cml, value, new_level, outcome) IN
       /\ sl_heap' = r.heap
       /\ sl_cml' = r.cml
       /\ sl_last' = [op |-> "insert", value |-> value, ret |-> r.ret,
                      expect |-> value \notin sl_set,
                      \* the copy is freed when no node could be made for it
                      freed |-> IF r.failed /\ outcome = "node_null"
                                THEN <<value>> ELSE <<>>]
       /\ sl_set' = IF r.failed THEN sl_set ELSE sl_set \cup {value}
       /\ sl_failed' = (sl_failed \/ r.failed)
    /\ UNCHANGED <<sl_head, notSL>>

\* (mutant of EraseResult: current_max_level is lowered whether or not the
\* value was found)
EraseResultShrinksAlways(heap, head, cml, value) ==
    LET s == EraseWalk(heap, head, cml - 1, value, EmptyCache, FALSE) IN
    IF ~s.found
    THEN [heap |-> heap, cml |-> Shrink(heap, head, cml), ret |-> FALSE, freed |-> <<>>]
    ELSE LET node_to_delete == heap[s.update[0]].next[0]
             h1 == Unlink(heap, s.update, node_to_delete, 0)
             d == NodeDestroy(h1, node_to_delete, TRUE)
         IN [heap |-> d.heap, cml |-> Shrink(d.heap, head, cml), ret |-> TRUE,
             freed |-> d.freed]

\* The state skiplist_erase leaves.
EraseResult(heap, head, cml, value) ==
    LET s == EraseWalk(heap, head, cml - 1, value, EmptyCache, FALSE) IN
    IF ~s.found THEN [heap |-> heap, cml |-> cml, ret |-> FALSE, freed |-> <<>>]
    ELSE LET node_to_delete == heap[s.update[0]].next[0]
             h1 == Unlink(heap, s.update, node_to_delete, 0)
             d == NodeDestroy(h1, node_to_delete, TRUE)
         IN [heap |-> d.heap, cml |-> Shrink(d.heap, head, cml), ret |-> TRUE,
             freed |-> d.freed]

\* skiplist_erase(list, value)
SkiplistErase(value) ==
    /\ sl_head # NULL
    /\ LET r == EraseResult(sl_heap, sl_head, sl_cml, value) IN
       /\ sl_heap' = r.heap
       /\ sl_cml' = r.cml
       /\ sl_last' = [op |-> "erase", value |-> value, ret |-> r.ret,
                      expect |-> value \in sl_set, freed |-> r.freed]
    /\ sl_set' = sl_set \ {value}
    /\ UNCHANGED <<sl_head, sl_failed, notSL>>

\* skiplist_contain(list, value)
SkiplistContainCall(value) ==
    /\ sl_head # NULL
    /\ sl_last' = [op |-> "contain", value |-> value,
                   ret |-> SkiplistContain(sl_heap, sl_head, sl_cml, value),
                   expect |-> value \in sl_set, freed |-> <<>>]
    /\ UNCHANGED <<sl_heap, sl_head, sl_cml, sl_set, sl_failed, notSL>>

\* skiplist_destroy(list): the nodes are destroyed along the level-0 chain,
\* the head without the free function, and the list is freed.
SkiplistDestroy ==
    /\ sl_head # NULL
    /\ LET r == DestroyLoop(sl_heap, sl_head, sl_head, <<>>) IN
       /\ sl_heap' = r.heap
       /\ sl_last' = [op |-> "destroy", value |-> NULL, ret |-> TRUE, expect |-> TRUE,
                      freed |-> r.freed]
    /\ sl_head' = NULL
    /\ sl_cml' = 0
    /\ sl_set' = {}
    /\ UNCHANGED <<sl_failed, notSL>>

SLNext ==
    \/ \E v \in Values, l \in 1..MaxDrawnLevel, oc \in {"ok", "copy_null", "node_null"} :
          SkiplistInsert(v, l, oc)
    \/ \E v \in Values : SkiplistErase(v)
    \/ \E v \in Values : SkiplistContainCall(v)

\* The calls on a list that is destroyed in the end.
SLDestroyNext ==
    \/ \E v \in Values, l \in 1..MaxDrawnLevel, oc \in {"ok", "copy_null", "node_null"} :
          SkiplistInsert(v, l, oc)
    \/ \E v \in Values : SkiplistErase(v)
    \/ SkiplistDestroy

SLIdle ==
    /\ sl_heap = <<>>
    /\ sl_head = NULL
    /\ sl_cml = 0
    /\ sl_last = [op |-> "none"]
    /\ sl_set = {}
    /\ sl_failed = FALSE

\* ---- what the skip list claims speak of ----

\* The resident nodes: every allocated node but the head.
Resident == DOMAIN sl_heap \ {sl_head}

\* The highest level of a resident node, 1 for an empty list.
HighestLevel ==
    IF Resident = {} THEN 1
    ELSE CHOOSE n \in {sl_heap[a].level : a \in Resident} :
             \A a \in Resident : sl_heap[a].level <= n

\* The values met along the level-L links from the head (at most fuel of them).
RECURSIVE Chain(_, _, _)
Chain(node, level, fuel) ==
    LET next == sl_heap[node].next[level] IN
    IF next = NULL \/ fuel = 0 THEN <<>>
    ELSE <<sl_heap[next].value>> \o Chain(next, level, fuel - 1)

ChainAt(level) == Chain(sl_head, level, Cardinality(Addresses))

StrictlyIncreasing(seq) ==
    \A i \in 1..(Len(seq) - 1) : Compare(seq[i], seq[i + 1]) < 0

\* C1: as long as no copy or node allocation has failed, every insert, erase and
\* contain call returns what the same call returns on a mathematical set (insert:
\* the value was absent; erase, contain: it was present), and the list contains
\* exactly the values of that set.
C1_RefinesSet ==
    ~sl_failed =>
        /\ sl_last.ret = sl_last.expect
        /\ \A v \in Values :
               SkiplistContain(sl_heap, sl_head, sl_cml, v) <=> v \in sl_set

\* A successful insert beside another resident value, in a list two levels high.
C1_Witness ==
    /\ ~sl_failed
    /\ sl_last.op = "insert" /\ sl_last.ret /\ sl_last.value \in sl_set
    /\ Cardinality(sl_set) >= 2
    /\ sl_cml >= 2

\* C7: current_max_level equals the highest level of a resident node (1 for an
\* empty list) and lies in 1..MAX_LEVEL, in every reachable state.
C7_MaxLevelIsHighest ==
    /\ sl_cml = HighestLevel
    /\ sl_cml \in 1..MAX_LEVEL

\* C8: for every level L below current_max_level the values along the level-L
\* chain from the head are strictly increasing, and no two resident nodes hold
\* values that compare equal.
C8_ChainsIncrease ==
    /\ \A L \in 0..(sl_cml - 1) : StrictlyIncreasing(ChainAt(L))
    /\ \A a, b \in Resident :
           a # b => Compare(sl_heap[a].value, sl_heap[b].value) # 0

\* After an erase from a list of three: two nodes left on the level-0 chain, one
\* of them tall enough to be on the level-1 chain too.
C8_Witness ==
    /\ Len(ChainAt(0)) >= 2
    /\ Len(ChainAt(1)) = 1
    /\ sl_cml >= 2
    /\ sl_last.op = "erase" /\ sl_last.ret

\* Some resident node holds a value that compares equal to v.
IsResident(v) == \E a \in Resident : Compare(sl_heap[a].value, v) = 0

\* C16: skiplist_insert of a value that compares equal to a resident value
\* returns false and leaves every node, every link and current_max_level as
\* they were; no node is allocated for it.
C16_DuplicateInsertChangesNothing ==
    [][(sl_last'.op = "insert" /\ IsResident(sl_last'.value))
          => /\ ~sl_last'.ret
             /\ sl_heap' = sl_heap
             /\ sl_head' = sl_head
             /\ sl_cml' = sl_cml]_vars

\* An insert of a resident value has just returned false, in a list of at
\* least two values and two levels.
C16_Witness ==
    /\ sl_last.op = "insert" /\ ~sl_last.ret
    /\ IsResident(sl_last.value)
    /\ ~sl_failed
    /\ Cardinality(Resident) >= 2
    /\ sl_cml = 2

\* C29: a skiplist_insert that fails after the duplicate check (the copy
\* function returns null, or the node cannot be allocated) returns false and
\* leaves the index as it was: the same nodes, the same links and the same
\* current_max_level as before the call.
C29_FailedInsertChangesNothing ==
    [][(sl_last'.op = "insert" /\ ~IsResident(sl_last'.value) /\ ~sl_last'.ret)
          => /\ sl_heap' = sl_heap
             /\ sl_head' = sl_head
             /\ sl_cml' = sl_cml]_vars

\* The values of the nodes that the step took out of the list.
ValuesGone == {sl_heap[a].value : a \in Resident \ DOMAIN sl_heap'}

\* The values of the nodes that are in the list after the step.
ValuesKept == {sl_heap'[a].value : a \in DOMAIN sl_heap' \ {sl_head}}

\* C35: on a list created with a free function, the value of every node that
\* a call takes out of the list is given to the free function exactly once
\* by that call, which is an erase or the destroy; the free function is never
\* given the head's value or the value of a node that stays in the list; and
\* after destroy no node is allocated.
C35_ValuesReleasedOnce ==
    [][LET freed == sl_last'.freed
       IN /\ \A v \in ValuesGone :
                Cardinality({i \in 1..Len(freed) : freed[i] = v}) = 1
          /\ \A i \in 1..Len(freed) :
                freed[i] # NULL /\ freed[i] \notin ValuesKept
          /\ ValuesGone # {} => sl_last'.op \in {"erase", "destroy"}
          /\ sl_last'.op = "destroy" => DOMAIN sl_heap' = {}]_vars

\* A list of two values or more has been destroyed: each value was given to
\* the free function and no node is left.
C35_Witness ==
    /\ sl_last.op = "destroy"
    /\ Len(sl_last.freed) >= 2
    /\ sl_heap = <<>>

\* The nodes met along the level-L links from the head, up to the null link
\* that ends the chain, a link to no allocated node or the fuel's end.
RECURSIVE NodesFrom(_, _, _)
NodesFrom(node, level, fuel) ==
    LET next == sl_heap[node].next[level] IN
    IF next = NULL \/ next \notin DOMAIN sl_heap \/ fuel = 0 THEN <<>>
    ELSE <<next>> \o NodesFrom(next, level, fuel - 1)

NodesAt(level) == NodesFrom(sl_head, level, Cardinality(Addresses))

\* The level-L chain from the head ends in null after its last node.
EndsInNull(level) ==
    LET nodes == NodesAt(level)
        last == IF nodes = <<>> THEN sl_head ELSE nodes[Len(nodes)]
    IN sl_heap[last].next[level] = NULL

\* Every element of short is in long, and in the same order.
IsSubsequence(short, long) ==
    LET at == [i \in 1..Len(short) |-> {j \in 1..Len(long) : long[j] = short[i]}]
    IN /\ \A i \in 1..Len(short) : at[i] # {}
       /\ \A i \in 1..(Len(short) - 1) :
             \A j \in at[i], k \in at[i + 1] : j < k

\* C37: in every reachable state each resident node has a level in
\* 1..current_max_level and is on the level-L chain from the head for exactly
\* the levels L below its level; every chain ends in null and meets no node
\* twice; the level-(L+1) chain is a subsequence of the level-L chain; and
\* every resident value is reached at level 0.
C37_NodesLinkedAtTheirLevels ==
    /\ \A a \in Resident : sl_heap[a].level \in 1..sl_cml
    /\ \A L \in 0..(MAX_LEVEL - 1) :
          LET nodes == NodesAt(L)
          IN /\ EndsInNull(L)
             /\ Cardinality({nodes[i] : i \in 1..Len(nodes)}) = Len(nodes)
             /\ {nodes[i] : i \in 1..Len(nodes)} = {a \in Resident : sl_heap[a].level > L}
             /\ L + 1 < MAX_LEVEL => IsSubsequence(NodesAt(L + 1), nodes)
    /\ {sl_heap[a].value : a \in Resident} = {ChainAt(0)[i] : i \in 1..Len(ChainAt(0))}

\* Two resident nodes after an erase, one of level 3 and one of level 1: a
\* chain of two nodes at level 0 and of one node at levels 1 and 2.
C37_Witness ==
    /\ sl_last.op = "erase" /\ sl_last.ret
    /\ Len(NodesAt(0)) = 2
    /\ Len(NodesAt(1)) = 1
    /\ Len(NodesAt(2)) = 1
    /\ sl_cml = 3

\* C17: skiplist_erase of a resident value returns true; afterwards the value
\* is not contained, the one node that held it is gone and no link of any
\* node at any level points at it, and every other resident value is still
\* contained.
C17_EraseRemovesExactlyThatValue ==
    [][(sl_last'.op = "erase" /\ IsResident(sl_last'.value))
          => LET v == sl_last'.value
                 gone == DOMAIN sl_heap \ DOMAIN sl_heap'
             IN /\ sl_last'.ret
                /\ Cardinality(gone) = 1
                /\ DOMAIN sl_heap' \subseteq DOMAIN sl_heap
                /\ \A a \in gone : Compare(sl_heap[a].value, v) = 0
                /\ \A b \in DOMAIN sl_heap' :
                      \A l \in DOMAIN sl_heap'[b].next : sl_heap'[b].next[l] \notin gone
                /\ ~SkiplistContain(sl_heap', sl_head', sl_cml', v)
                /\ \A w \in Values :
                      (w # v /\ IsResident(w))
                         => SkiplistContain(sl_heap', sl_head', sl_cml', w)]_vars

\* An erase has just returned true and left two values behind, one of them in
\* a node three levels high.
C17_Witness ==
    /\ sl_last.op = "erase" /\ sl_last.ret
    /\ ~IsResident(sl_last.value)
    /\ Cardinality(Resident) = 2
    /\ sl_cml = 3
    /\ Len(ChainAt(2)) = 1

\* C18: skiplist_erase of a value that no resident node holds returns false
\* and leaves every node, every link and current_max_level as they were.
C18_EraseAbsentChangesNothing ==
    [][(sl_last'.op = "erase" /\ ~IsResident(sl_last'.value))
          => /\ ~sl_last'.ret
             /\ sl_heap' = sl_heap
             /\ sl_head' = sl_head
             /\ sl_cml' = sl_cml]_vars

\* An erase of an absent value has just returned false on a list that holds a
\* value and whose current_max_level a failed insert left above its nodes.
C18_Witness ==
    /\ sl_last.op = "erase" /\ ~sl_last.ret
    /\ ~IsResident(sl_last.value)
    /\ Resident # {}
    /\ sl_cml > HighestLevel


(***************************************************************************)
(*                            COUNT-MIN SKETCH                             *)
(* TLC's integers are 32 bits wide. An int32 is an integer; a uint32 x is  *)
(* the record [hi, lo] of its top bit and its low 31 bits (x = hi * 2^31 + *)
(* lo); the int64 elements_added is [hi, lo] with any integer hi and lo in *)
(* 0..2^31-1 (hi * 2^31 + lo). No operator below forms an intermediate     *)
(* value outside the int32 range.                                          *)
(***************************************************************************)

\* <stdint.h> INT32_MAX, and CMS_ERROR = INT32_MIN
INT32_MAX == 2147483647
INT32_MIN == -INT32_MAX - 1

\* Update calls (add, remove) in one run.
MaxOps == 3

U32(hi, lo) == [hi |-> hi, lo |-> lo]

\* The amounts the calls are given: 1, INT32_MAX, 2^31 and UINT32_MAX.
Amounts == {U32(0, 1), U32(0, INT32_MAX), U32(1, 0), U32(1, INT32_MAX)}

\* The (width, depth) pairs cms_init_by_dim is called with.
Dims == {<<1, 1>>, <<2, 2>>}

\* The hashes a key may have in a row: 1..width (width itself falls in column 0).
HashVals(width) == 1..width

\* What cms_get_hashes returns for some key: one hash per row.
HashVectors(width, depth) == [0..(depth - 1) -> HashVals(width)]

\* __builtin_add_overflow(a, x, &c) on int32 a, uint32 x, int32 c: whether the
\* exact sum a + x is outside the int32 range, and the sum when it is inside.
BuiltinAddOverflow(a, x) ==
    IF x.hi = 0
    THEN IF a > 0 /\ x.lo > INT32_MAX - a
         THEN [overflow |-> TRUE, c |-> 0]
         ELSE [overflow |-> FALSE, c |-> a + x.lo]
    ELSE IF a >= 0 \/ a + x.lo >= 0
         THEN [overflow |-> TRUE, c |-> 0]
         ELSE [overflow |-> FALSE, c |-> (a + x.lo + 1) + INT32_MAX]

\* __builtin_sub_overflow(a, x, &c): the same for the exact difference a - x.
BuiltinSubOverflow(a, x) ==
    IF x.hi = 0
    THEN IF a < 0 /\ x.lo > a - INT32_MIN
         THEN [overflow |-> TRUE, c |-> 0]
         ELSE [overflow |-> FALSE, c |-> a - x.lo]
    ELSE IF a < 0 \/ a - x.lo < 0
         THEN [overflow |-> TRUE, c |-> 0]
         ELSE [overflow |-> FALSE, c |-> (a - x.lo) + INT32_MIN]

\* (mutant of SafeAdd: an overflowing sum wraps to the negative end)
SafeAddWraps(a, x) ==
    IF a = INT32_MAX \/ a = INT32_MIN THEN a
    ELSE LET r == BuiltinAddOverflow(a, x) IN
         IF r.overflow THEN INT32_MIN ELSE r.c

\* The #else branch of __safe_add:
\*   c = ((int64_t)a + b > INT32_MAX) ? INT32_MAX : (a + b);
\* a + b is a uint32 sum converted to int32; when the exact sum is at most
\* INT32_MAX that is the exact sum.
FallbackAdd(a, x) ==
    LET exact == BuiltinAddOverflow(a, x)
    IN IF exact.overflow THEN INT32_MAX ELSE exact.c

\* The #else branch of __safe_sub:
\*   c = ((int64_t)b - a < INT32_MIN) ? INT32_MAX : (a - b);
\* a - b is a uint32 difference converted to int32: the exact difference when
\* that is an int32, and the exact difference plus 2^32 when it is below
\* INT32_MIN.
FallbackSub(a, x) ==
    LET exact == BuiltinSubOverflow(a, x)
    IN IF x.hi = 0 /\ a > 0 /\ x.lo - a < INT32_MIN THEN INT32_MAX
       ELSE IF ~exact.overflow THEN exact.c
       ELSE IF x.hi = 0 THEN ((((a + INT32_MAX) + 1) - x.lo) + INT32_MAX) + 1
       ELSE IF a < 0 THEN ((a + INT32_MAX) + 1) - x.lo
       ELSE ((a - x.lo) + INT32_MAX) + 1

\* __safe_add
SafeAdd(a, x) ==
    IF a = INT32_MAX \/ a = INT32_MIN THEN a
    ELSE IF cms_has_builtin
    THEN LET r == BuiltinAddOverflow(a, x) IN
         IF r.overflow THEN INT32_MAX ELSE r.c
    ELSE FallbackAdd(a, x)

\* (mutant of SafeSub: an overflowing difference is clamped to the wrong end)
SafeSubWrongEnd(a, x) ==
    IF a = INT32_MAX \/ a = INT32_MIN THEN a
    ELSE LET r == BuiltinSubOverflow(a, x) IN
         IF r.overflow THEN INT32_MAX ELSE r.c

\* __safe_sub
SafeSub(a, x) ==
    IF a = INT32_MAX \/ a = INT32_MIN THEN a
    ELSE IF cms_has_builtin
    THEN LET r == BuiltinSubOverflow(a, x) IN
         IF r.overflow THEN INT32_MIN ELSE r.c
    ELSE FallbackSub(a, x)

\* int64 += uint32
Int64Add(e, x) ==
    IF e.lo > INT32_MAX - x.lo
    THEN [hi |-> e.hi + x.hi + 1, lo |-> e.lo - (INT32_MAX - x.lo) - 1]
    ELSE [hi |-> e.hi + x.hi, lo |-> e.lo + x.lo]

\* int64 -= uint32
Int64Sub(e, x) ==
    IF e.lo >= x.lo
    THEN [hi |-> e.hi - x.hi, lo |-> e.lo - x.lo]
    ELSE [hi |-> e.hi - x.hi - 1, lo |-> (e.lo + (INT32_MAX - x.lo)) + 1]

\* (hashes[i] % cms->width) + (i * cms->width)
Bin(hashes, i, width) == (hashes[i] % width) + (i * width)

Min(a, b) == IF a <= b THEN a ELSE b

\* The loop of cms_add_inc_alt from row i on: the bins and the running minimum.
RECURSIVE AddLoop(_, _, _, _, _, _, _)
AddLoop(bins, width, depth, hashes, x, i, num_add) ==
    IF i >= depth THEN [bins |-> bins, num_add |-> num_add]
    ELSE LET bin == Bin(hashes, i, width)
             b2 == [bins EXCEPT ![bin] = SafeAdd(bins[bin], x)]
         IN AddLoop(b2, width, depth, hashes, x, i + 1, Min(num_add, b2[bin]))

\* The loop of cms_remove_inc_alt from row i on.
RECURSIVE RemoveLoop(_, _, _, _, _, _, _)
RemoveLoop(bins, width, depth, hashes, x, i, num_add) ==
    IF i >= depth THEN [bins |-> bins, num_add |-> num_add]
    ELSE LET bin == Bin(hashes, i, width)
             b2 == [bins EXCEPT ![bin] = SafeSub(bins[bin], x)]
         IN RemoveLoop(b2, width, depth, hashes, x, i + 1, Min(num_add, b2[bin]))

\* The loop of cms_check_alt from row i on.
RECURSIVE CheckLoop(_, _, _, _, _, _)
CheckLoop(bins, width, depth, hashes, i, num_add) ==
    IF i >= depth THEN num_add
    ELSE CheckLoop(bins, width, depth, hashes, i + 1,
                   Min(num_add, bins[Bin(hashes, i, width)]))

\* (mutant of CmsAddIncAlt: elements_added grows only when no bin of the key is
\* at a limit afterwards)
CmsAddIncAltCountsUnsaturated(bins, ea, width, depth, hashes, num_hashes, x) ==
    IF num_hashes < depth THEN [bins |-> bins, ea |-> ea, ret |-> INT32_MIN]
    ELSE LET r == AddLoop(bins, width, depth, hashes, x, 0, INT32_MAX) IN
         [bins |-> r.bins,
          ea |-> IF r.num_add = INT32_MAX THEN ea ELSE Int64Add(ea, x),
          ret |-> r.num_add]

\* cms_add_inc_alt(cms, hashes, num_hashes, x)
CmsAddIncAlt(bins, ea, width, depth, hashes, num_hashes, x) ==
    IF num_hashes < depth THEN [bins |-> bins, ea |-> ea, ret |-> INT32_MIN]
    ELSE LET r == AddLoop(bins, width, depth, hashes, x, 0, INT32_MAX) IN
         [bins |-> r.bins, ea |-> Int64Add(ea, x), ret |-> r.num_add]

\* (mutant of CmsRemoveIncAlt: a bin that was not negative is not taken
\* below zero)
CmsRemoveIncAltFloorsAtZero(bins, ea, width, depth, hashes, num_hashes, x) ==
    IF num_hashes < depth THEN [bins |-> bins, ea |-> ea, ret |-> INT32_MIN]
    ELSE LET r == RemoveLoop(bins, width, depth, hashes, x, 0, INT32_MAX) IN
         [bins |-> [b \in DOMAIN bins |->
                      IF bins[b] >= 0 /\ r.bins[b] < 0 THEN 0 ELSE r.bins[b]],
          ea |-> Int64Sub(ea, x), ret |-> r.num_add]

\* cms_remove_inc_alt(cms, hashes, num_hashes, x)
CmsRemoveIncAlt(bins, ea, width, depth, hashes, num_hashes, x) ==
    IF num_hashes < depth THEN [bins |-> bins, ea |-> ea, ret |-> INT32_MIN]
    ELSE LET r == RemoveLoop(bins, width, depth, hashes, x, 0, INT32_MAX) IN
         [bins |-> r.bins, ea |-> Int64Sub(ea, x), ret |-> r.num_add]

\* cms_check_alt(cms, hashes, num_hashes)
CmsCheckAlt(bins, width, depth, hashes, num_hashes) ==
    IF num_hashes < depth THEN INT32_MIN
    ELSE CheckLoop(bins, width, depth, hashes, 0, INT32_MAX)

\* cms_check(cms, key) for a key with the given hashes, in the current state
CmsCheck(hashes) == CmsCheckAlt(cms_bins, cms_width, cms_depth, hashes, cms_depth)

\* CMS_ERROR
CMS_ERROR == INT32_MIN

\* int32 a + int32 b as a wrapping build computes it, and whether the exact
\* sum was outside the int32 range (signed overflow: the result is undefined)
Int32Add(a, b) ==
    IF a >= 0 /\ b >= 0 /\ a > INT32_MAX - b
    THEN [c |-> (((a - INT32_MAX) - 1) + b) - INT32_MAX - 1, overflow |-> TRUE]
    ELSE IF a < 0 /\ b < 0 /\ a < INT32_MIN - b
    THEN [c |-> ((((a + INT32_MAX) + 1) + b) + INT32_MAX) + 1, overflow |-> TRUE]
    ELSE [c |-> a + b, overflow |-> FALSE]

\* int32 num_add / uint32 depth: num_add is converted to uint32, the division
\* is unsigned, and the quotient is converted back to int32
Int32DivU32(num_add, depth) ==
    IF num_add >= 0 THEN num_add \div depth
    ELSE IF depth = 1 THEN num_add
    ELSE LET lo == (num_add + INT32_MAX) + 1
         IN (INT32_MAX \div depth) + (lo \div depth)
            + (((INT32_MAX % depth) + 1 + (lo % depth)) \div depth)

\* The loop of cms_check_mean_alt from row i on: the running sum, and whether
\* an addition overflowed.
RECURSIVE MeanLoop(_, _, _, _, _, _)
MeanLoop(bins, width, depth, hashes, i, st) ==
    IF i >= depth THEN st
    ELSE LET s == Int32Add(st.num_add, bins[Bin(hashes, i, width)])
         IN MeanLoop(bins, width, depth, hashes, i + 1,
                     [num_add |-> s.c, undefined |-> st.undefined \/ s.overflow])

\* (mutant of CmsCheckMeanAlt: no test of num_hashes)
CmsCheckMeanAltUnguarded(bins, width, depth, hashes, num_hashes) ==
    LET st == MeanLoop(bins, width, depth, hashes, 0,
                       [num_add |-> 0, undefined |-> FALSE])
    IN [ret |-> Int32DivU32(st.num_add, depth), undefined |-> st.undefined]

\* cms_check_mean_alt(cms, hashes, num_hashes): what a build in which int32
\* addition wraps returns, and whether the sum overflowed, in which case the
\* behaviour of the call is undefined.
CmsCheckMeanAlt(bins, width, depth, hashes, num_hashes) ==
    IF num_hashes < depth THEN [ret |-> CMS_ERROR, undefined |-> FALSE]
    ELSE LET st == MeanLoop(bins, width, depth, hashes, 0,
                            [num_add |-> 0, undefined |-> FALSE])
         IN [ret |-> Int32DivU32(st.num_add, depth), undefined |-> st.undefined]

\* cms_check_mean(cms, key) for a key with the given hashes, in the current state
CmsCheckMean(hashes) ==
    CmsCheckMeanAlt(cms_bins, cms_width, cms_depth, hashes, cms_depth)

OpsDone ==
    LET RECURSIVE Sum(_, _)
        Sum(f, S) == IF S = {} THEN 0
                     ELSE LET a == CHOOSE a \in S : TRUE IN f[a] + Sum(f, S \ {a})
    IN Sum(cms_added, Amounts) + Sum(cms_removed, Amounts)

\* cms_init_by_dim(cms, width, depth) with width, depth >= 1, through __setup_cms
CMSInit ==
    /\ cms_has_builtin \in BOOLEAN
    /\ \E d \in Dims : cms_width = d[1] /\ cms_depth = d[2]
    /\ cms_bins = [b \in 0..(cms_width * cms_depth - 1) |-> 0]
    /\ cms_elements_added = [hi |-> 0, lo |-> 0]
    /\ cms_added = [x \in Amounts |-> 0]
    /\ cms_removed = [x \in Amounts |-> 0]
    /\ cms_ones = [h \in HashVectors(cms_width, cms_depth) |-> 0]

\* cms_add_inc(cms, key, x): the key's hashes, then cms_add_inc_alt with depth
\* hashes
CmsAddInc(hashes, x) ==
    /\ OpsDone < MaxOps
    /\ LET r == CmsAddIncAlt(cms_bins, cms_elements_added, cms_width, cms_depth,
                             hashes, cms_depth, x) IN
       /\ cms_bins' = r.bins
       /\ cms_elements_added' = r.ea
    /\ cms_added' = [cms_added EXCEPT ![x] = @ + 1]
    /\ cms_ones' = IF x = U32(0, 1) /\ \A a \in Amounts : cms_removed[a] = 0
                   THEN [cms_ones EXCEPT ![hashes] = @ + 1]
                   ELSE cms_ones
    /\ UNCHANGED <<cms_width, cms_depth, cms_removed, cms_has_builtin, notCMS>>

\* cms_remove_inc(cms, key, x)
CmsRemoveInc(hashes, x) ==
    /\ OpsDone < MaxOps
    /\ LET r == CmsRemoveIncAlt(cms_bins, cms_elements_added, cms_width, cms_depth,
                                hashes, cms_depth, x) IN
       /\ cms_bins' = r.bins
       /\ cms_elements_added' = r.ea
    /\ cms_removed' = [cms_removed EXCEPT ![x] = @ + 1]
    /\ cms_ones' = [h \in DOMAIN cms_ones |-> 0]
    /\ UNCHANGED <<cms_width, cms_depth, cms_added, cms_has_builtin, notCMS>>

CMSNext ==
    \/ \E h \in HashVectors(cms_width, cms_depth), x \in Amounts : CmsAddInc(h, x)
    \/ \E h \in HashVectors(cms_width, cms_depth), x \in Amounts : CmsRemoveInc(h, x)

\* A sketch that was not set up (the state cms_destroy leaves).
CMSIdle ==
    /\ cms_width = 0
    /\ cms_depth = 0
    /\ cms_bins = <<>>
    /\ cms_elements_added = [hi |-> 0, lo |-> 0]
    /\ cms_added = <<>>
    /\ cms_removed = <<>>
    /\ cms_has_builtin = TRUE
    /\ cms_ones = <<>>

\* ---- what the count-min sketch claims speak of ----

Rows == 0..(cms_depth - 1)

NoRemoveYet == \A a \in Amounts : cms_removed[a] = 0

\* r - a as a uint32, for int32 r >= a.
Gap(r, a) ==
    IF a >= 0 \/ r <= INT32_MAX + a THEN U32(0, r - a)
    ELSE U32(1, ((r - INT32_MAX) - 1) - a)

U32Geq(x, y) == x.hi > y.hi \/ (x.hi = y.hi /\ x.lo >= y.lo)

\* r is a + x clamped to INT32_MAX.
IsClampedSum(a, x, r) ==
    IF U32Geq(x, Gap(INT32_MAX, a)) THEN r = INT32_MAX
    ELSE r >= a /\ Gap(r, a) = x

\* r is a - x clamped to INT32_MIN.
IsClampedDifference(a, x, r) ==
    IF U32Geq(x, Gap(a, INT32_MIN)) THEN r = INT32_MIN
    ELSE r <= a /\ Gap(a, r) = x

\* a - x is below INT32_MIN.
DifferenceIsBelowMin(a, x) ==
    U32Geq(x, Gap(a, INT32_MIN)) /\ x # Gap(a, INT32_MIN)

Pinned(a) == a = INT32_MAX \/ a = INT32_MIN

AfterAdd(h, x) ==
    CmsAddIncAlt(cms_bins, cms_elements_added, cms_width, cms_depth, h, cms_depth, x)

AfterRemove(h, x) ==
    CmsRemoveIncAlt(cms_bins, cms_elements_added, cms_width, cms_depth, h, cms_depth, x)

KeyBins(h) == {Bin(h, i, cms_width) : i \in Rows}

C3_Saturates ==
    /\ \A b \in DOMAIN cms_bins : cms_bins[b] \in INT32_MIN..INT32_MAX
    /\ \A h \in HashVectors(cms_width, cms_depth), x \in Amounts :
          \A b \in DOMAIN cms_bins :
             LET a == cms_bins[b]
                 added == AfterAdd(h, x).bins[b]
                 removed == AfterRemove(h, x).bins[b]
             IN IF b \notin KeyBins(h) \/ Pinned(a)
                THEN added = a /\ removed = a
                ELSE IsClampedSum(a, x, added) /\ IsClampedDifference(a, x, removed)

\* One bin is at INT32_MAX, another at INT32_MIN, and a third call came after.
C3_Witness ==
    /\ \E b \in DOMAIN cms_bins : cms_bins[b] = INT32_MAX
    /\ \E b \in DOMAIN cms_bins : cms_bins[b] = INT32_MIN
    /\ OpsDone = 3

\* An amount as c * 2^31 + r with r near 0.
Digits(x) ==
    IF x.lo > INT32_MAX - x.lo THEN [c |-> x.hi + 1, r |-> (x.lo - INT32_MAX) - 1]
    ELSE [c |-> x.hi, r |-> x.lo]

\* The sum of the added amounts minus the sum of the removed ones.
NetAmount ==
    LET RECURSIVE Sum(_, _)
        Sum(S, part) ==
            IF S = {} THEN 0
            ELSE LET x == CHOOSE x \in S : TRUE
                     n == cms_added[x] - cms_removed[x]
                 IN n * (IF part = "c" THEN Digits(x).c ELSE Digits(x).r)
                    + Sum(S \ {x}, part)
        c == Sum(Amounts, "c")
        r == Sum(Amounts, "r")
    IN IF r >= 0 THEN [hi |-> c, lo |-> r]
       ELSE [hi |-> c - 1, lo |-> (r + 1) + INT32_MAX]

\* C9: elements_added is the sum of all added amounts minus the sum of all
\* removed amounts, whether or not a bin was clamped or stayed at a limit.
C9_ElementsAddedIsNetSum == cms_elements_added = NetAmount

\* elements_added is negative while a bin sits at a limit.
C9_Witness ==
    /\ cms_elements_added.hi < 0
    /\ \E b \in DOMAIN cms_bins : Pinned(cms_bins[b])
    /\ \E x \in Amounts : cms_added[x] > 0

\* C10 as stated: in any counter state, for any key and amount x, check(key)
\* after remove(key, x) is check(key) before minus x, and remove(key, x) after
\* add(key, x) restores every bin of the key.
C10_RemoveReducesCheckByAmount ==
    \A h \in HashVectors(cms_width, cms_depth), x \in Amounts :
        LET before == CmsCheck(h)
            after == CmsCheckAlt(AfterRemove(h, x).bins, cms_width, cms_depth,
                                 h, cms_depth)
            added == AfterAdd(h, x)
            undone == CmsRemoveIncAlt(added.bins, added.ea, cms_width, cms_depth,
                                      h, cms_depth, x)
        IN /\ after <= before /\ Gap(before, after) = x
           /\ undone.bins = cms_bins

\* C10 as amended: when check(key) is INT32_MIN or INT32_MAX, remove(key, x)
\* leaves it unchanged; otherwise check(key) after remove(key, x) is check(key)
\* before minus x when that is at least INT32_MIN, and, in a build with the
\* overflow builtins, INT32_MIN when it is below.  remove(key, x) after
\* add(key, x) restores every bin of the key that was not at a limit and that
\* the add left below INT32_MAX.
C10_RemoveReducesCheckUnlessSaturated ==
    \A h \in HashVectors(cms_width, cms_depth), x \in Amounts :
        LET before == CmsCheck(h)
            after == CmsCheckAlt(AfterRemove(h, x).bins, cms_width, cms_depth,
                                 h, cms_depth)
            added == AfterAdd(h, x)
            undone == CmsRemoveIncAlt(added.bins, added.ea, cms_width, cms_depth,
                                      h, cms_depth, x)
        IN /\ IF Pinned(before) THEN after = before
              ELSE (cms_has_builtin \/ ~DifferenceIsBelowMin(before, x))
                      => IsClampedDifference(before, x, after)
           /\ \A b \in KeyBins(h) :
                 (~Pinned(cms_bins[b]) /\ added.bins[b] < INT32_MAX)
                     => undone.bins[b] = cms_bins[b]

\* A one-bin counter to which INT32_MAX was added and from which 1 was then
\* removed: the bin, and the estimate, are still INT32_MAX.
C10_Witness ==
    /\ cms_width = 1 /\ cms_depth = 1
    /\ cms_added[U32(0, INT32_MAX)] = 1
    /\ cms_removed[U32(0, 1)] = 1
    /\ OpsDone = 2
    /\ cms_bins[0] = INT32_MAX

\* The sum of the key's bins as depth * q + r with 0 <= r < depth, and from it
\* the sum divided by depth, truncated toward zero.
TruncatedMean(h) ==
    LET RECURSIVE Quotients(_)
        Quotients(i) == IF i >= cms_depth THEN 0
                        ELSE (cms_bins[Bin(h, i, cms_width)] \div cms_depth) + Quotients(i + 1)
        RECURSIVE Remainders(_)
        Remainders(i) == IF i >= cms_depth THEN 0
                         ELSE (cms_bins[Bin(h, i, cms_width)] % cms_depth) + Remainders(i + 1)
        q == Quotients(0) + (Remainders(0) \div cms_depth)
        r == Remainders(0) % cms_depth
    IN IF q < 0 /\ r # 0 THEN q + 1 ELSE q

\* C11: check_mean of a key is defined and returns the exact sum of the key's
\* bins divided by depth, truncated toward zero, whatever the bins hold.
C11_MeanIsTruncatedAverage ==
    \A h \in HashVectors(cms_width, cms_depth) :
        /\ ~CmsCheckMean(h).undefined
        /\ CmsCheckMean(h).ret = TruncatedMean(h)

\* The numbers of hashes that are fewer than depth.
TooFewHashes == 0..(cms_depth - 1)

\* C12: cms_add_inc_alt, cms_remove_inc_alt, cms_check_alt and
\* cms_check_mean_alt given fewer than depth hashes return CMS_ERROR, and the
\* first two leave every bin and elements_added as they were.
C12_TooFewHashesFail ==
    \A h \in HashVectors(cms_width, cms_depth), n \in TooFewHashes :
        /\ \A x \in Amounts :
              LET unchanged == [bins |-> cms_bins, ea |-> cms_elements_added,
                                ret |-> CMS_ERROR]
              IN /\ CmsAddIncAlt(cms_bins, cms_elements_added, cms_width, cms_depth,
                                 h, n, x) = unchanged
                 /\ CmsRemoveIncAlt(cms_bins, cms_elements_added, cms_width, cms_depth,
                                    h, n, x) = unchanged
        /\ CmsCheckAlt(cms_bins, cms_width, cms_depth, h, n) = CMS_ERROR
        /\ CmsCheckMeanAlt(cms_bins, cms_width, cms_depth, h, n)
              = [ret |-> CMS_ERROR, undefined |-> FALSE]

\* A sketch of depth 2 that two calls have changed, and a key for which a call
\* with one hash fails while the call with two hashes adds to its bins and
\* gives estimates other than CMS_ERROR.
C12_Witness ==
    /\ cms_depth = 2
    /\ OpsDone = 2
    /\ cms_elements_added # [hi |-> 0, lo |-> 0]
    /\ \E h \in HashVectors(cms_width, cms_depth) :
          /\ CmsCheckAlt(cms_bins, cms_width, cms_depth, h, 1) = CMS_ERROR
          /\ CmsCheck(h) > 0
          /\ CmsCheckMean(h).ret > 0
          /\ AfterAdd(h, U32(0, 1)).bins # cms_bins
          /\ CmsAddIncAlt(cms_bins, cms_elements_added, cms_width, cms_depth,
                          h, 1, U32(0, 1)).bins = cms_bins

\* C30: add, remove and check return CMS_ERROR (INT32_MIN) exactly when fewer
\* than depth hashes were supplied: in every state of the sketch, for every
\* key and amount, a call given depth hashes does not return INT32_MIN, and a
\* call given fewer does.
C30_ErrorValueIsUnambiguous ==
    \A h \in HashVectors(cms_width, cms_depth) :
       /\ \A n \in 0..(cms_depth - 1) :
             /\ CmsCheckAlt(cms_bins, cms_width, cms_depth, h, n) = CMS_ERROR
             /\ \A x \in Amounts :
                   /\ CmsAddIncAlt(cms_bins, cms_elements_added, cms_width,
                                   cms_depth, h, n, x).ret = CMS_ERROR
                   /\ CmsRemoveIncAlt(cms_bins, cms_elements_added, cms_width,
                                      cms_depth, h, n, x).ret = CMS_ERROR
       /\ CmsCheck(h) # CMS_ERROR
       /\ \A x \in Amounts :
             /\ AfterAdd(h, x).ret # CMS_ERROR
             /\ AfterRemove(h, x).ret # CMS_ERROR

\* An update: a call of cms_add_inc or cms_remove_inc for a key with the
\* given hashes.
Updates == [op : {"add", "remove"},
            hashes : HashVectors(cms_width, cms_depth),
            x : Amounts]

\* The bins and elements_added an update leaves.
Apply(st, u) ==
    LET r == IF u.op = "add"
             THEN CmsAddIncAlt(st.bins, st.ea, cms_width, cms_depth,
                               u.hashes, cms_depth, u.x)
             ELSE CmsRemoveIncAlt(st.bins, st.ea, cms_width, cms_depth,
                                  u.hashes, cms_depth, u.x)
    IN [bins |-> r.bins, ea |-> r.ea]

\* Some bin is at a limit.
AtLimit(bins) == \E b \in DOMAIN bins : Pinned(bins[b])

\* Two sketches set up alike by cms_init_by_dim.
ReplicaInit ==
    /\ CMSInit
    /\ cms_replica = [bins |-> cms_bins, ea |-> cms_elements_added, limit |-> FALSE]

\* The same two updates on both sketches: u1 then u2 on the one, u2 then u1
\* on the other.
ApplyInBothOrders(u1, u2) ==
    /\ LET a1 == Apply([bins |-> cms_bins, ea |-> cms_elements_added], u1)
           a12 == Apply(a1, u2)
           b2 == Apply([bins |-> cms_replica.bins, ea |-> cms_replica.ea], u2)
           b21 == Apply(b2, u1)
       IN /\ cms_bins' = a12.bins
          /\ cms_elements_added' = a12.ea
          /\ cms_replica' = [bins |-> b21.bins, ea |-> b21.ea,
                             limit |-> \/ cms_replica.limit
                                       \/ AtLimit(a1.bins) \/ AtLimit(a12.bins)
                                       \/ AtLimit(b2.bins) \/ AtLimit(b21.bins)]
    /\ LET Tally(t, op) == [x \in Amounts |->
                              t[x] + (IF u1.op = op /\ u1.x = x THEN 1 ELSE 0)
                                   + (IF u2.op = op /\ u2.x = x THEN 1 ELSE 0)]
       IN /\ cms_added' = Tally(cms_added, "add")
          /\ cms_removed' = Tally(cms_removed, "remove")
    /\ UNCHANGED <<cms_width, cms_depth, cms_has_builtin, cms_ones, slVars, geoVars,
                   storeVars, setupVars, b32Vars, raceVars, serverVars, rngVars>>

ReplicaNext ==
    /\ OpsDone + 2 <= MaxOps
    /\ \E u1, u2 \in Updates : ApplyInBothOrders(u1, u2)

ReplicaIdle == cms_replica = [op |-> "none"]

\* C32 (as stated): the same updates applied in two orders leave identical
\* bins and identical elements_added.
C32_UpdatesCommute ==
    /\ cms_replica.bins = cms_bins
    /\ cms_replica.ea = cms_elements_added

\* C32 (amended): the same updates applied in two orders leave identical
\* elements_added, and identical bins unless a bin was at a limit after one
\* of the updates in one of the orders.
C32_UpdatesCommuteBelowLimits ==
    /\ cms_replica.ea = cms_elements_added
    /\ ~cms_replica.limit => cms_replica.bins = cms_bins

\* Two sketches of two rows after an add and a remove for two keys that share
\* a bin, applied in the two orders: the bins are the same, not all zero, and
\* none was at a limit.
C32_Witness ==
    /\ cms_depth = 2
    /\ OpsDone = 2
    /\ \E x \in Amounts : cms_added[x] = 1
    /\ ~cms_replica.limit
    /\ cms_replica.bins = cms_bins
    /\ \E b \in DOMAIN cms_bins : cms_bins[b] # 0

(***************************************************************************)
(*                 GEOHASH  (src/data_structure/geo_hash.c)                *)
(*                                                                         *)
(* A coordinate is an integer number of units of 180/2^30 degree.  Every   *)
(* interval end and midpoint encode and get_bounds compute for a hash of   *)
(* up to 12 characters is a whole number of units, and a double holds each *)
(* of them exactly, so the integer arithmetic below is the arithmetic of   *)
(* the doubles.  A hash is the sequence of its characters.                 *)
(***************************************************************************)

GEOHASH_MAX_PRECISION == 12

GEOHASH_OK == 0
GEOHASH_ERROR_INVALID_POINT == -1
GEOHASH_ERROR_INVALID_HASH == -2
GEOHASH_ERROR_ALLOCATION == -3
GEOHASH_ERROR_INVALID_PRECISION == -4

GEOHASH_NORTH == 0
GEOHASH_SOUTH == 1
GEOHASH_EAST == 2
GEOHASH_WEST == 3

MAX_LONGITUDE == 2^30      \* 180.0
MIN_LONGITUDE == -(2^30)   \* -180.0
MAX_LATITUDE == 2^29       \* 90.0
MIN_LATITUDE == -(2^29)    \* -90.0
BASE32_SIZE == 32
BITS_PER_CHAR == 5

BASE32_ALPHABET ==
    <<"0", "1", "2", "3", "4", "5", "6", "7", "8", "9", "b", "c", "d", "e", "f", "g",
      "h", "j", "k", "m", "n", "p", "q", "r", "s", "t", "u", "v", "w", "x", "y", "z">>

\* adjacent_map[direction + 1][parity + 1] is the source's adjacent_map[direction][parity].
adjacent_map ==
    <<<< <<"p", "0", "r", "2", "1", "4", "3", "6", "x", "8", "z", "b", "9", "d", "c", "f",
           "5", "h", "7", "k", "j", "n", "m", "q", "e", "s", "g", "u", "t", "w", "v", "y">>,
          <<"b", "c", "0", "1", "f", "g", "4", "5", "2", "3", "8", "9", "6", "7", "d", "e",
           "u", "v", "h", "j", "y", "z", "n", "p", "k", "m", "s", "t", "q", "r", "w", "x">> >>,   \* North
      << <<"1", "4", "3", "6", "5", "h", "7", "k", "9", "d", "c", "f", "e", "s", "g", "u",
           "j", "n", "m", "q", "p", "0", "r", "2", "t", "w", "v", "y", "x", "8", "z", "b">>,
          <<"2", "3", "8", "9", "6", "7", "d", "e", "b", "c", "0", "1", "f", "g", "4", "5",
           "k", "m", "s", "t", "q", "r", "w", "x", "u", "v", "h", "j", "y", "z", "n", "p">> >>,   \* South
      << <<"b", "c", "0", "1", "f", "g", "4", "5", "2", "3", "8", "9", "6", "7", "d", "e",
           "u", "v", "h", "j", "y", "z", "n", "p", "k", "m", "s", "t", "q", "r", "w", "x">>,
          <<"p", "0", "r", "2", "1", "4", "3", "6", "x", "8", "z", "b", "9", "d", "c", "f",
           "5", "h", "7", "k", "j", "n", "m", "q", "e", "s", "g", "u", "t", "w", "v", "y">> >>,   \* East
      << <<"2", "3", "8", "9", "6", "7", "d", "e", "b", "c", "0", "1", "f", "g", "4", "5",
           "k", "m", "s", "t", "q", "r", "w", "x", "u", "v", "h", "j", "y", "z", "n", "p">>,
          <<"1", "4", "3", "6", "5", "h", "7", "k", "9", "d", "c", "f", "e", "s", "g", "u",
           "j", "n", "m", "q", "p", "0", "r", "2", "t", "w", "v", "y", "x", "8", "z", "b">> >> >>   \* West

\* border_map[direction + 1][parity + 1] is the source's border_map[direction][parity].
border_map ==
    <<<< <<"p", "r", "x", "z">>,
          <<"b", "c", "f", "g", "u", "v", "y", "z">> >>,   \* North
      << <<"0", "2", "8", "b">>,
          <<"0", "1", "4", "5", "h", "j", "n", "p">> >>,   \* South
      << <<"b", "c", "f", "g", "u", "v", "y", "z">>,
          <<"p", "r", "x", "z">> >>,   \* East
      << <<"0", "1", "4", "5", "h", "j", "n", "p">>,
          <<"0", "2", "8", "b">> >> >>   \* West

\* ---- the inputs the calls are given ----

GridBits == 1
MaxHashLen == 2
MaxMoves == 1

GridIndex == ((-(2^GridBits))..(2^GridBits)) \X (-1..1)

\* The grid line k of 2^GridBits per half axis, moved by d units: on a midpoint
\* of the first bisections (d = 0), one unit below or above it, and, past the
\* last grid line, outside the valid range.
Coordinate(max, g) == g[1] * (max \div (2^GridBits)) + g[2]

Points ==
    {[latitude |-> Coordinate(MAX_LATITUDE, a), longitude |-> Coordinate(MAX_LONGITUDE, b)] :
        a \in GridIndex, b \in {g \in GridIndex : g = <<0, 0>>}}
    \cup {[latitude |-> Coordinate(MAX_LATITUDE, a), longitude |-> Coordinate(MAX_LONGITUDE, b)] :
        a \in {g \in GridIndex : g = <<0, 0>>}, b \in GridIndex}
    \cup {[latitude |-> Coordinate(MAX_LATITUDE, a), longitude |-> Coordinate(MAX_LONGITUDE, a)] :
        a \in GridIndex}

Precisions == 0..(GEOHASH_MAX_PRECISION + 1)

\* The characters a caller's hash has before its last one: the four corner
\* characters of a cell and an inner character.  Its last character is any
\* character of the alphabet, or one that is no geohash character.
PrefixChars == {"0", "b", "p", "z", "s"}

LastChars == {BASE32_ALPHABET[i] : i \in 1..BASE32_SIZE} \cup {"a", "i", "l", "o", "B"}

RECURSIVE HashesOfLength(_)
HashesOfLength(n) ==
    IF n = 0 THEN {<<>>}
    ELSE IF n = 1 THEN {<<c>> : c \in LastChars}
    ELSE {<<p>> \o h : p \in PrefixChars, h \in HashesOfLength(n - 1)}

\* Hashes of the greatest length there is, and of one character more.
LongHashes ==
    {[i \in 1..n |-> c] : c \in {"0", "z"},
                          n \in {GEOHASH_MAX_PRECISION, GEOHASH_MAX_PRECISION + 1}}

CallerHashes == UNION {HashesOfLength(n) : n \in 0..MaxHashLen} \cup LongHashes

Directions == {GEOHASH_NORTH, GEOHASH_SOUTH, GEOHASH_EAST, GEOHASH_WEST}

\* The GeoDirection values a caller passes: the four directions, and the
\* values next to them.
CallerDirections == Directions \cup {GEOHASH_NORTH - 1, GEOHASH_WEST + 1}

\* How many of a call's allocations succeed before one fails.
EnoughMallocs == 2 * GEOHASH_MAX_PRECISION
MallocBudgets == {0, 1, 2, EnoughMallocs}

NoPoint == [latitude |-> 0, longitude |-> 0, absent |-> TRUE]
NoBounds == [absent |-> TRUE]

\* ---- the functions ----

\* find_char_index / find_base32_index: the 0-based position of c, or -1.
find_char_index(c, str) ==
    LET at == {i \in 1..Len(str) : str[i] = c}
    IN IF at = {} THEN -1
       ELSE (CHOOSE i \in at : \A j \in at : i <= j) - 1

find_base32_index(c) == find_char_index(c, BASE32_ALPHABET)

\* (mutant of is_valid_geohash_string: no limit on the length)
is_valid_geohash_string_any_length(hash, length) ==
    /\ ~(length = 0)
    /\ \A i \in 1..length : find_base32_index(hash[i]) # -1

is_valid_geohash_string(hash, length) ==
    /\ ~(length = 0 \/ length > GEOHASH_MAX_PRECISION)
    /\ \A i \in 1..length : find_base32_index(hash[i]) # -1

geopoint_is_valid(point) ==
    /\ point.latitude >= MIN_LATITUDE /\ point.latitude <= MAX_LATITUDE
    /\ point.longitude >= MIN_LONGITUDE /\ point.longitude <= MAX_LONGITUDE

\* (mutant of UpperHalf: a coordinate on the midpoint goes to the lower half)
UpperHalfStrict(coordinate, mid) == coordinate > mid

\* The comparison of a coordinate with the midpoint of its interval.
UpperHalf(coordinate, mid) == coordinate >= mid

\* One iteration of the while loop of geohash_encode on its locals st.
EncodeBit(point, st) ==
    LET mid == IF st.is_even THEN (st.min_lon + st.max_lon) \div 2
               ELSE (st.min_lat + st.max_lat) \div 2
        up == IF st.is_even THEN UpperHalf(point.longitude, mid)
              ELSE UpperHalf(point.latitude, mid)
        index == IF up THEN 2 * st.index + 1 ELSE 2 * st.index
        full == st.bit + 1 = BITS_PER_CHAR
    IN [min_lon |-> IF st.is_even /\ up THEN mid ELSE st.min_lon,
        max_lon |-> IF st.is_even /\ ~up THEN mid ELSE st.max_lon,
        min_lat |-> IF ~st.is_even /\ up THEN mid ELSE st.min_lat,
        max_lat |-> IF ~st.is_even /\ ~up THEN mid ELSE st.max_lat,
        is_even |-> ~st.is_even,
        hash |-> IF full THEN Append(st.hash, BASE32_ALPHABET[index + 1]) ELSE st.hash,
        index |-> IF full THEN 0 ELSE index,
        bit |-> IF full THEN 0 ELSE st.bit + 1]

\* The iterations up to and including the next one that emits a character.
RECURSIVE EncodeChar(_, _)
EncodeChar(point, st) ==
    LET st1 == EncodeBit(point, st)
    IN IF st1.bit = 0 THEN st1 ELSE EncodeChar(point, st1)

\* The while loop of geohash_encode; its condition changes with char_count only.
RECURSIVE EncodeLoop(_, _, _)
EncodeLoop(point, precision, st) ==
    IF ~(Len(st.hash) < precision) THEN st.hash
    ELSE EncodeLoop(point, precision, EncodeChar(point, st))

\* The locals of geohash_encode before its loop.
EncodeStart ==
    [min_lon |-> MIN_LONGITUDE, max_lon |-> MAX_LONGITUDE,
     min_lat |-> MIN_LATITUDE, max_lat |-> MAX_LATITUDE,
     bit |-> 0, index |-> 0, hash |-> <<>>, is_even |-> TRUE]

\* (mutant of GeohashEncode: the precision is tested before the point)
GeohashEncodePrecisionFirst(point, precision, mallocs) ==
    IF precision = 0 \/ precision > GEOHASH_MAX_PRECISION
    THEN [err |-> GEOHASH_ERROR_INVALID_PRECISION, hash |-> <<>>, malloc_calls |-> 0]
    ELSE IF ~geopoint_is_valid(point)
    THEN [err |-> GEOHASH_ERROR_INVALID_POINT, hash |-> <<>>, malloc_calls |-> 0]
    ELSE IF mallocs = 0
    THEN [err |-> GEOHASH_ERROR_ALLOCATION, hash |-> <<>>, malloc_calls |-> 1]
    ELSE [err |-> GEOHASH_OK, malloc_calls |-> 1,
          hash |-> EncodeLoop(point, precision, EncodeStart)]

\* geohash_encode: the error code, the hash written to result (none on error)
\* and how often malloc was called.
GeohashEncode(point, precision, mallocs) ==
    IF ~geopoint_is_valid(point)
    THEN [err |-> GEOHASH_ERROR_INVALID_POINT, hash |-> <<>>, malloc_calls |-> 0]
    ELSE IF precision = 0 \/ precision > GEOHASH_MAX_PRECISION
    THEN [err |-> GEOHASH_ERROR_INVALID_PRECISION, hash |-> <<>>, malloc_calls |-> 0]
    ELSE IF mallocs = 0
    THEN [err |-> GEOHASH_ERROR_ALLOCATION, hash |-> <<>>, malloc_calls |-> 1]
    ELSE [err |-> GEOHASH_OK, malloc_calls |-> 1,
          hash |-> EncodeLoop(point, precision, EncodeStart)]

\* (mutant of GET_BIT: the bits of a character are counted from the low end
\* of its five)
GET_BIT_LowFirst(num, idx) == (num \div (2^((BITS_PER_CHAR - 1) - idx))) % 2

GET_BIT(num, idx) == (num \div (2^idx)) % 2

\* One iteration of the inner loop of geohash_get_bounds on its locals st.
BoundsBit(st, char_index) ==
    LET bit_value == GET_BIT(char_index, st.bit)
        mid == IF st.is_even THEN (st.min_lon + st.max_lon) \div 2
               ELSE (st.min_lat + st.max_lat) \div 2
    IN [min_lon |-> IF st.is_even /\ bit_value = 1 THEN mid ELSE st.min_lon,
        max_lon |-> IF st.is_even /\ bit_value = 0 THEN mid ELSE st.max_lon,
        min_lat |-> IF ~st.is_even /\ bit_value = 1 THEN mid ELSE st.min_lat,
        max_lat |-> IF ~st.is_even /\ bit_value = 0 THEN mid ELSE st.max_lat,
        is_even |-> ~st.is_even,
        i |-> st.i,
        bit |-> st.bit - 1]

\* The inner loop of geohash_get_bounds: bit from BITS_PER_CHAR - 1 down to 0.
RECURSIVE BoundsChar(_, _)
BoundsChar(st, char_index) ==
    IF ~(st.bit >= 0) THEN st
    ELSE BoundsChar(BoundsBit(st, char_index), char_index)

\* The outer loop of geohash_get_bounds: character i of the hash.
RECURSIVE BoundsLoop(_, _)
BoundsLoop(hash, st) ==
    IF ~(st.i < Len(hash))
    THEN [min_latitude |-> st.min_lat, max_latitude |-> st.max_lat,
          min_longitude |-> st.min_lon, max_longitude |-> st.max_lon]
    ELSE BoundsLoop(hash,
                    [BoundsChar([st EXCEPT !.bit = BITS_PER_CHAR - 1],
                                find_base32_index(hash[st.i + 1]))
                        EXCEPT !.i = st.i + 1])

\* geohash_get_bounds: the error code and the bounds written (none on error).
GeohashGetBounds(hash) ==
    IF ~is_valid_geohash_string(hash, Len(hash))
    THEN [err |-> GEOHASH_ERROR_INVALID_HASH, bounds |-> NoBounds]
    ELSE [err |-> GEOHASH_OK,
          bounds |-> BoundsLoop(hash,
                                [min_lon |-> MIN_LONGITUDE, max_lon |-> MAX_LONGITUDE,
                                 min_lat |-> MIN_LATITUDE, max_lat |-> MAX_LATITUDE,
                                 is_even |-> TRUE, i |-> 0, bit |-> BITS_PER_CHAR - 1])]

\* (mutant of OnBorder: the border characters of even lengths are used for
\* every length)
OnBorderIgnoresParity(last_char, direction, parity, hash_len) ==
    find_char_index(last_char, border_map[direction + 1][1]) # -1 /\ hash_len > 1

\* (mutant of GeohashDecode: the upper corner of the bounds in place of their
\* centre)
GeohashDecodeUpperCorner(hash) ==
    LET b == GeohashGetBounds(hash)
    IN IF b.err # GEOHASH_OK THEN [err |-> b.err, halves |-> NoPoint]
       ELSE [err |-> GEOHASH_OK,
             halves |-> [latitude |-> b.bounds.max_latitude + b.bounds.max_latitude,
                         longitude |-> b.bounds.max_longitude + b.bounds.max_longitude]]

\* geohash_decode: the error code and the centre of the bounds, each
\* coordinate of it in half units (min + max is twice the centre, which need
\* not be a whole number of units).
GeohashDecode(hash) ==
    LET b == GeohashGetBounds(hash)
    IN IF b.err # GEOHASH_OK THEN [err |-> b.err, halves |-> NoPoint]
       ELSE [err |-> GEOHASH_OK,
             halves |-> [latitude |-> b.bounds.min_latitude + b.bounds.max_latitude,
                         longitude |-> b.bounds.min_longitude + b.bounds.max_longitude]]

\* (mutant of OnBorder: the border characters of the other parity)
OnBorderOtherParity(last_char, direction, parity, hash_len) ==
    find_char_index(last_char, border_map[direction + 1][(1 - parity) + 1]) # -1 /\ hash_len > 1

\* The test that sends geohash_get_adjacent to the parent cell.
OnBorder(last_char, direction, parity, hash_len) ==
    find_char_index(last_char, border_map[direction + 1][parity + 1]) # -1 /\ hash_len > 1

\* (mutant of GeohashGetAdjacent: the prefix is kept whether or not the last
\* character is on the border)
GeohashGetAdjacentKeepsPrefix(hash, direction, mallocs) ==
    LET hash_len == Len(hash)
        Failure(e, left) == [err |-> e, hash |-> <<>>, mallocs |-> left]
    IN IF ~is_valid_geohash_string(hash, hash_len)
       THEN Failure(GEOHASH_ERROR_INVALID_HASH, mallocs)
       ELSE IF direction < GEOHASH_NORTH \/ direction > GEOHASH_WEST
       THEN Failure(GEOHASH_ERROR_INVALID_HASH, mallocs)
       ELSE IF mallocs = 0
       THEN Failure(GEOHASH_ERROR_ALLOCATION, 0)
       ELSE LET new_char_index ==
                    find_char_index(hash[hash_len],
                                    adjacent_map[direction + 1][(hash_len % 2) + 1])
            IN [err |-> GEOHASH_OK,
                hash |-> Append(SubSeq(hash, 1, hash_len - 1),
                                BASE32_ALPHABET[new_char_index + 1]),
                mallocs |-> mallocs - 1]

\* geohash_get_adjacent: the error code, the hash written to result (none on
\* error) and the allocations still to succeed.
RECURSIVE GeohashGetAdjacent(_, _, _)
GeohashGetAdjacent(hash, direction, mallocs) ==
    LET hash_len == Len(hash)
        Failure(e, left) == [err |-> e, hash |-> <<>>, mallocs |-> left]
    IN IF ~is_valid_geohash_string(hash, hash_len)
       THEN Failure(GEOHASH_ERROR_INVALID_HASH, mallocs)
       ELSE IF direction < GEOHASH_NORTH \/ direction > GEOHASH_WEST
       THEN Failure(GEOHASH_ERROR_INVALID_HASH, mallocs)
       ELSE IF mallocs = 0
       THEN Failure(GEOHASH_ERROR_ALLOCATION, 0)
       ELSE
         LET last_char == hash[hash_len]
             parity == hash_len % 2
             parent_hash == SubSeq(hash, 1, hash_len - 1)
             new_char_index == find_char_index(last_char, adjacent_map[direction + 1][parity + 1])
             Finish(prefix, left) ==
                 IF new_char_index = -1
                 THEN Failure(GEOHASH_ERROR_INVALID_HASH, left)
                 ELSE [err |-> GEOHASH_OK,
                       hash |-> Append(prefix, BASE32_ALPHABET[new_char_index + 1]),
                       mallocs |-> left]
         IN IF OnBorder(last_char, direction, parity, hash_len)
            THEN IF mallocs - 1 = 0
                 THEN Failure(GEOHASH_ERROR_ALLOCATION, 0)
                 ELSE LET adjacent_parent ==
                              GeohashGetAdjacent(parent_hash, direction, mallocs - 2)
                      IN IF adjacent_parent.err # GEOHASH_OK
                         THEN Failure(adjacent_parent.err, adjacent_parent.mallocs)
                         ELSE Finish(adjacent_parent.hash, adjacent_parent.mallocs)
            ELSE Finish(parent_hash, mallocs - 1)

\* ---- the buffers of the adjacency calls ----
\* A GeoHash as the allocator sees it: ptr is "null" (hash == NULL), "live"
\* (hash points at a buffer that was not freed) or "freed" (hash still points
\* at a buffer that was freed); hash is the string in a live buffer.  The
\* heap: how many more mallocs succeed, how many buffers were allocated and
\* freed so far, and whether free was given a pointer to a freed buffer.

\* geohash_create()
GeohashCreate == [ptr |-> "null", hash |-> <<>>]

FreshHeap(mallocs) ==
    [mallocs |-> mallocs, allocated |-> 0, freed |-> 0, double_free |-> FALSE]

\* a malloc that succeeded
HeapMalloc(heap) ==
    [heap EXCEPT !.mallocs = @ - 1, !.allocated = @ + 1]

\* free(p) of a live buffer
HeapFree(heap) == [heap EXCEPT !.freed = @ + 1]

\* geohash_free(&g)
GeohashFree(g, heap) ==
    IF g.ptr = "live" THEN [g |-> GeohashCreate, heap |-> HeapFree(heap)]
    ELSE IF g.ptr = "freed"
    THEN [g |-> GeohashCreate, heap |-> [heap EXCEPT !.double_free = TRUE]]
    ELSE [g |-> g, heap |-> heap]

\* geohash_get_adjacent(&hash, direction, &result) with its buffers: the error
\* code, result as the call leaves it, and the heap.
RECURSIVE GeohashGetAdjacentBuffers(_, _, _, _)
GeohashGetAdjacentBuffers(hash, direction, result, heap) ==
    LET hash_len == Len(hash)
        Released == [ptr |-> "freed", hash |-> <<>>]
    IN IF ~is_valid_geohash_string(hash, hash_len)
       THEN [err |-> GEOHASH_ERROR_INVALID_HASH, result |-> result, heap |-> heap]
       ELSE IF direction < GEOHASH_NORTH \/ direction > GEOHASH_WEST
       THEN [err |-> GEOHASH_ERROR_INVALID_HASH, result |-> result, heap |-> heap]
       ELSE IF heap.mallocs = 0
       THEN [err |-> GEOHASH_ERROR_ALLOCATION, result |-> GeohashCreate, heap |-> heap]
       ELSE
         LET last_char == hash[hash_len]
             parity == hash_len % 2
             parent_hash == SubSeq(hash, 1, hash_len - 1)
             new_char_index == find_char_index(last_char, adjacent_map[direction + 1][parity + 1])
             result_heap == HeapMalloc(heap)
             Finish(prefix, hp) ==
                 IF new_char_index = -1
                 THEN [err |-> GEOHASH_ERROR_INVALID_HASH, result |-> Released,
                       heap |-> HeapFree(hp)]
                 ELSE [err |-> GEOHASH_OK,
                       result |-> [ptr |-> "live",
                                   hash |-> Append(prefix, BASE32_ALPHABET[new_char_index + 1])],
                       heap |-> hp]
         IN IF OnBorder(last_char, direction, parity, hash_len)
            THEN IF result_heap.mallocs = 0
                 THEN [err |-> GEOHASH_ERROR_ALLOCATION, result |-> Released,
                       heap |-> HeapFree(result_heap)]
                 ELSE LET adjacent_parent ==
                              GeohashGetAdjacentBuffers(parent_hash, direction, GeohashCreate,
                                                        HeapMalloc(result_heap))
                          parent_freed == HeapFree(adjacent_parent.heap)
                      IN IF adjacent_parent.err # GEOHASH_OK
                         THEN [err |-> adjacent_parent.err, result |-> Released,
                               heap |-> HeapFree(parent_freed)]
                         ELSE Finish(adjacent_parent.result.hash,
                                     GeohashFree(adjacent_parent.result, parent_freed).heap)
            ELSE Finish(parent_hash, result_heap)

\* The eight calls of geohash_get_all_adjacent in order: the field of result
\* written, the hash the neighbour is taken of ("hash" is the argument) and the
\* direction.
AdjacentSteps ==
    << [field |-> "north", of |-> "hash", direction |-> GEOHASH_NORTH],
       [field |-> "south", of |-> "hash", direction |-> GEOHASH_SOUTH],
       [field |-> "east", of |-> "hash", direction |-> GEOHASH_EAST],
       [field |-> "west", of |-> "hash", direction |-> GEOHASH_WEST],
       [field |-> "northeast", of |-> "north", direction |-> GEOHASH_EAST],
       [field |-> "northwest", of |-> "north", direction |-> GEOHASH_WEST],
       [field |-> "southeast", of |-> "south", direction |-> GEOHASH_EAST],
       [field |-> "southwest", of |-> "south", direction |-> GEOHASH_WEST] >>

AdjacentFields == {AdjacentSteps[k].field : k \in DOMAIN AdjacentSteps}

\* A GeoAdjacent whose eight hashes are all {NULL, 0}.
EmptyAdjacent == [f \in AdjacentFields |-> GeohashCreate]

\* The cleanup labels of geohash_get_all_adjacent, entered at the label that
\* frees the field of step k: geohash_free of the fields of steps k down to 1.
RECURSIVE AllAdjacentCleanup(_, _, _)
AllAdjacentCleanup(k, result, heap) ==
    IF k = 0 THEN [result |-> result, heap |-> heap]
    ELSE LET field == AdjacentSteps[k].field
             f == GeohashFree(result[field], heap)
         IN AllAdjacentCleanup(k - 1, [result EXCEPT ![field] = f.g], f.heap)

\* geohash_get_all_adjacent from step k on.
RECURSIVE AllAdjacentSteps(_, _, _, _)
AllAdjacentSteps(hash, k, result, heap) ==
    IF k > Len(AdjacentSteps) THEN [err |-> GEOHASH_OK, result |-> result, heap |-> heap]
    ELSE LET step == AdjacentSteps[k]
             of == IF step.of = "hash" THEN hash ELSE result[step.of].hash
             r == GeohashGetAdjacentBuffers(of, step.direction, result[step.field], heap)
             written == [result EXCEPT ![step.field] = r.result]
         IN IF r.err # GEOHASH_OK
            THEN LET c == AllAdjacentCleanup(k - 1, written, r.heap)
                 IN [err |-> r.err, result |-> c.result, heap |-> c.heap]
            ELSE AllAdjacentSteps(hash, k + 1, written, r.heap)

\* geohash_get_all_adjacent(&hash, &result)
GeohashGetAllAdjacent(hash, result, heap) == AllAdjacentSteps(hash, 1, result, heap)

\* geoadjacent_free(&adjacent): geohash_free of the eight fields
RECURSIVE GeoadjacentFreeFields(_, _, _)
GeoadjacentFreeFields(fields, adjacent, heap) ==
    IF fields = {} THEN [result |-> adjacent, heap |-> heap]
    ELSE LET field == CHOOSE f \in fields : TRUE
             f == GeohashFree(adjacent[field], heap)
         IN GeoadjacentFreeFields(fields \ {field}, [adjacent EXCEPT ![field] = f.g], f.heap)

GeoadjacentFree(adjacent, heap) == GeoadjacentFreeFields(AdjacentFields, adjacent, heap)

\* How many of the allocations of one geohash_get_all_adjacent succeed.
AllAdjacentBudgets == (0..EnoughMallocs) \cup {8 * EnoughMallocs}

\* ---- the calls ----

GeoInit ==
    /\ \/ /\ geo_point \in Points
          /\ geo_precision \in Precisions
          /\ geo_hash = <<>>
       \/ /\ geo_point = NoPoint
          /\ geo_precision = 0
          /\ geo_hash \in CallerHashes
    /\ geo_call = [op |-> "none"]
    /\ geo_err = GEOHASH_OK
    /\ geo_bounds = NoBounds
    /\ geo_trail = <<>>
    /\ geo_moves = <<>>

\* geohash_encode(&geo_point, geo_precision, &geo_hash) on a fresh result.
GeohashEncodeCall(mallocs) ==
    /\ geo_point # NoPoint
    /\ geo_call.op = "none"
    /\ LET r == GeohashEncode(geo_point, geo_precision, mallocs)
       IN /\ geo_err' = r.err
          /\ geo_hash' = r.hash
          /\ geo_call' = [op |-> "encode", mallocs |-> mallocs,
                          malloc_calls |-> r.malloc_calls]
    /\ UNCHANGED <<geo_point, geo_precision, geo_bounds, geo_trail, geo_moves, notGeo>>

\* geohash_get_bounds(&geo_hash, &geo_bounds).
GeohashGetBoundsCall ==
    /\ geo_bounds = NoBounds
    /\ LET r == GeohashGetBounds(geo_hash)
       IN /\ geo_err' = r.err
          /\ geo_bounds' = r.bounds
    /\ geo_call' = [op |-> "get_bounds"]
    /\ UNCHANGED <<geo_point, geo_precision, geo_hash, geo_trail, geo_moves, notGeo>>

\* geohash_get_adjacent(&geo_hash, direction, &result); on success the caller
\* goes on with result.
GeohashGetAdjacentCall(direction, mallocs) ==
    /\ Len(geo_moves) < MaxMoves
    /\ LET r == GeohashGetAdjacent(geo_hash, direction, mallocs)
       IN /\ geo_err' = r.err
          /\ IF r.err = GEOHASH_OK
             THEN /\ geo_hash' = r.hash
                  /\ geo_trail' = Append(geo_trail, geo_hash)
                  /\ geo_moves' = Append(geo_moves, direction)
                  /\ geo_bounds' = NoBounds
             ELSE UNCHANGED <<geo_hash, geo_trail, geo_moves, geo_bounds>>
    /\ geo_call' = [op |-> "get_adjacent"]
    /\ UNCHANGED <<geo_point, geo_precision, notGeo>>

\* geohash_get_all_adjacent(&geo_hash, &result) on a result whose hashes are
\* all {NULL, 0}, before the caller has moved.
GeohashGetAllAdjacentCall(mallocs) ==
    /\ geo_moves = <<>>
    /\ geo_call.op \in {"none", "encode"}
    /\ LET r == GeohashGetAllAdjacent(geo_hash, EmptyAdjacent, FreshHeap(mallocs))
       IN /\ geo_err' = r.err
          /\ geo_call' = [op |-> "get_all_adjacent", result |-> r.result,
                          allocated |-> r.heap.allocated, freed |-> r.heap.freed,
                          double_free |-> r.heap.double_free]
    /\ UNCHANGED <<geo_point, geo_precision, geo_hash, geo_bounds, geo_trail,
                   geo_moves, notGeo>>

\* geoadjacent_free(&result) after geohash_get_all_adjacent, whatever it
\* returned.
GeoadjacentFreeCall ==
    /\ geo_call.op = "get_all_adjacent"
    /\ LET r == GeoadjacentFree(geo_call.result,
                                [mallocs |-> 0, allocated |-> geo_call.allocated,
                                 freed |-> geo_call.freed,
                                 double_free |-> geo_call.double_free])
       IN geo_call' = [op |-> "geoadjacent_free", result |-> r.result,
                       allocated |-> r.heap.allocated, freed |-> r.heap.freed,
                       double_free |-> r.heap.double_free]
    /\ UNCHANGED <<geo_point, geo_precision, geo_hash, geo_err, geo_bounds,
                   geo_trail, geo_moves, notGeo>>

GeoNext ==
    \/ \E mallocs \in {0, 1} : GeohashEncodeCall(mallocs)
    \/ GeohashGetBoundsCall
    \/ \E direction \in CallerDirections, mallocs \in MallocBudgets :
          GeohashGetAdjacentCall(direction, mallocs)

\* The calls of a caller that asks for all eight neighbours of its hash.
GeoAdjacentNext ==
    \/ \E mallocs \in {0, 1} : GeohashEncodeCall(mallocs)
    \/ \E mallocs \in AllAdjacentBudgets : GeohashGetAllAdjacentCall(mallocs)
    \/ GeoadjacentFreeCall

GeoIdle ==
    /\ geo_point = NoPoint
    /\ geo_precision = 0
    /\ geo_hash = <<>>
    /\ geo_call = [op |-> "none"]
    /\ geo_err = GEOHASH_OK
    /\ geo_bounds = NoBounds
    /\ geo_trail = <<>>
    /\ geo_moves = <<>>

\* ---- what the geohash claims speak of ----

Opposite(direction) ==
    IF direction = GEOHASH_NORTH THEN GEOHASH_SOUTH
    ELSE IF direction = GEOHASH_SOUTH THEN GEOHASH_NORTH
    ELSE IF direction = GEOHASH_EAST THEN GEOHASH_WEST
    ELSE GEOHASH_EAST

\* geo_hash is what geohash_encode made of geo_point.
HashIsOfPoint == geo_point # NoPoint /\ geo_hash # <<>> /\ geo_moves = <<>>

\* C4: geohash_encode of a valid point at a precision in 1..12, its allocation
\* succeeding, returns GEOHASH_OK and a hash of exactly that many characters of
\* the alphabet; the bounds geohash_get_bounds gives for it contain the point,
\* and a coordinate equals an upper bound only at the upper end of its axis, a
\* coordinate on a midpoint having gone to the upper half.
C4_EncodeContainsPoint ==
    /\ (/\ geo_call.op = "encode"
        /\ geo_call.mallocs > 0
        /\ geopoint_is_valid(geo_point)
        /\ geo_precision \in 1..GEOHASH_MAX_PRECISION)
       => /\ geo_err = GEOHASH_OK
          /\ Len(geo_hash) = geo_precision
          /\ \A i \in 1..Len(geo_hash) :
                \E j \in 1..BASE32_SIZE : geo_hash[i] = BASE32_ALPHABET[j]
    /\ (HashIsOfPoint /\ geo_call.op = "get_bounds")
       => /\ geo_err = GEOHASH_OK
          /\ geo_bounds.min_latitude <= geo_point.latitude
          /\ geo_point.latitude <= geo_bounds.max_latitude
          /\ geo_bounds.min_longitude <= geo_point.longitude
          /\ geo_point.longitude <= geo_bounds.max_longitude
          /\ geo_point.latitude = geo_bounds.max_latitude
                => geo_point.latitude = MAX_LATITUDE
          /\ geo_point.longitude = geo_bounds.max_longitude
                => geo_point.longitude = MAX_LONGITUDE

\* The point (0, 0), on the first midpoint of both axes, encoded at precision
\* 12: it is the lower corner of the bounds of its hash.
C4_Witness ==
    /\ HashIsOfPoint /\ geo_call.op = "get_bounds"
    /\ geo_precision = GEOHASH_MAX_PRECISION
    /\ geo_point.latitude = 0 /\ geo_point.longitude = 0
    /\ geo_bounds.min_latitude = 0 /\ geo_bounds.min_longitude = 0
    /\ geo_bounds.max_latitude = 1

\* C5: a move to the neighbour in one direction followed by a move in the
\* opposite direction ends on the hash it started from, and the neighbour
\* reached by any move has the hash it came from as its neighbour in the
\* opposite direction.
C5_AdjacencyInvertible ==
    /\ \A i \in 1..(Len(geo_moves) - 1) :
          geo_moves[i + 1] = Opposite(geo_moves[i])
             => (IF i + 2 <= Len(geo_trail) THEN geo_trail[i + 2] ELSE geo_hash) = geo_trail[i]
    /\ geo_moves # <<>>
          => LET back == GeohashGetAdjacent(geo_hash, Opposite(geo_moves[Len(geo_moves)]),
                                            EnoughMallocs)
             IN back.err = GEOHASH_OK /\ back.hash = geo_trail[Len(geo_trail)]

\* A move south from a 12-character hash whose southern neighbour differs from
\* it in every character, the first included.
C5_Witness ==
    /\ geo_moves # <<>>
    /\ geo_moves[Len(geo_moves)] = GEOHASH_SOUTH
    /\ Len(geo_hash) = GEOHASH_MAX_PRECISION
    /\ \A i \in 1..Len(geo_hash) : geo_trail[Len(geo_trail)][i] # geo_hash[i]

\* The hash the last move started from, its direction, and the tables'
\* entries for that direction and the parity of the hash's length.
MovedFrom == geo_trail[Len(geo_trail)]
MovedTo == geo_moves[Len(geo_moves)]
AdjacentTable == adjacent_map[MovedTo + 1][(Len(MovedFrom) % 2) + 1]
BorderTable == border_map[MovedTo + 1][(Len(MovedFrom) % 2) + 1]

\* The hash without its last character.
Parent(hash) == SubSeq(hash, 1, Len(hash) - 1)

\* The last character of the hash the move started from is a border
\* character.
LeftFromBorder ==
    \E i \in 1..Len(BorderTable) : BorderTable[i] = MovedFrom[Len(MovedFrom)]

\* C34: the hash geohash_get_adjacent returns is valid and as long as the
\* hash it was given; its last character is the alphabet character at the
\* place where the given hash's last character stands in the adjacent table
\* of the direction and the length's parity; its prefix is the given hash's
\* prefix, or the neighbour of that prefix in the same direction when the
\* last character is a border character and the hash is longer than 1; and it
\* differs from the given hash.
C34_AdjacentIsTableImage ==
    geo_moves # <<>> =>
       /\ is_valid_geohash_string(geo_hash, Len(geo_hash))
       /\ Len(geo_hash) = Len(MovedFrom)
       /\ \E i \in 1..Len(AdjacentTable) :
             /\ AdjacentTable[i] = MovedFrom[Len(MovedFrom)]
             /\ geo_hash[Len(geo_hash)] = BASE32_ALPHABET[i]
       /\ Parent(geo_hash) =
             IF LeftFromBorder /\ Len(MovedFrom) > 1
             THEN GeohashGetAdjacent(Parent(MovedFrom), MovedTo, EnoughMallocs).hash
             ELSE Parent(MovedFrom)
       /\ geo_hash # MovedFrom

\* A move east from a hash of three characters or more whose last character
\* is a border character: the neighbour differs from it in each of the last
\* three characters.
C34_Witness ==
    /\ geo_moves # <<>>
    /\ MovedTo = GEOHASH_EAST
    /\ Len(MovedFrom) >= 3
    /\ LeftFromBorder
    /\ \A i \in (Len(geo_hash) - 2)..Len(geo_hash) : geo_hash[i] # MovedFrom[i]

\* C13: when geohash_get_all_adjacent returns an error, every buffer allocated
\* during the call was freed, none twice, and no hash of the result points at
\* a freed buffer; geoadjacent_free of the result afterwards frees no buffer a
\* second time.
C13_FailureReleasesNeighbours ==
    /\ (geo_call.op = "get_all_adjacent" /\ geo_err # GEOHASH_OK)
          => /\ geo_call.freed = geo_call.allocated
             /\ ~geo_call.double_free
             /\ \A f \in AdjacentFields : geo_call.result[f].ptr # "freed"
    /\ geo_call.op = "geoadjacent_free" => ~geo_call.double_free

\* The neighbour of the neighbour of hash: direction first, then second.
TwoMoves(hash, first, second) ==
    LET one == GeohashGetAdjacent(hash, first, EnoughMallocs)
    IN IF one.err # GEOHASH_OK THEN one
       ELSE GeohashGetAdjacent(one.hash, second, EnoughMallocs)

\* C14: for a valid hash, a move north or south followed by a move east or
\* west succeeds and ends on the hash that the same two moves end on when made
\* in the other order.
C14_OrthogonalMovesCommute ==
    is_valid_geohash_string(geo_hash, Len(geo_hash))
       => \A a \in {GEOHASH_NORTH, GEOHASH_SOUTH}, b \in {GEOHASH_EAST, GEOHASH_WEST} :
             /\ TwoMoves(geo_hash, a, b).err = GEOHASH_OK
             /\ TwoMoves(geo_hash, a, b).hash = TwoMoves(geo_hash, b, a).hash

\* The hash of the point (0, 0) at precision 12: a move south and a move west
\* both go to the parent cell at every length, and the hash reached differs
\* from it in every character.
C14_Witness ==
    /\ Len(geo_hash) = GEOHASH_MAX_PRECISION
    /\ geo_call.op = "encode"
    /\ \A n \in 2..Len(geo_hash) :
          /\ OnBorder(geo_hash[n], GEOHASH_SOUTH, n % 2, n)
          /\ OnBorder(geo_hash[n], GEOHASH_WEST, n % 2, n)
    /\ LET there == TwoMoves(geo_hash, GEOHASH_SOUTH, GEOHASH_WEST)
       IN /\ there.err = GEOHASH_OK
          /\ \A i \in 1..Len(geo_hash) : there.hash[i] # geo_hash[i]

\* The bounds of a hash, and of its neighbour in a direction.
BoundsOf(hash) == GeohashGetBounds(hash).bounds

Neighbour(hash, direction) == GeohashGetAdjacent(hash, direction, EnoughMallocs).hash

\* The neighbour to the north lies on the cell's northern edge, over the same
\* longitudes, and decodes to a higher latitude.
NorthSharesBorder(hash) ==
    LET n == Neighbour(hash, GEOHASH_NORTH)
    IN /\ BoundsOf(n).min_latitude = BoundsOf(hash).max_latitude
       /\ BoundsOf(n).min_longitude = BoundsOf(hash).min_longitude
       /\ BoundsOf(n).max_longitude = BoundsOf(hash).max_longitude
       /\ GeohashDecode(n).halves.latitude > GeohashDecode(hash).halves.latitude

\* The neighbour to the east lies on the cell's eastern edge and decodes to a
\* higher longitude.
EastSharesBorder(hash) ==
    LET e == Neighbour(hash, GEOHASH_EAST)
    IN /\ BoundsOf(e).min_longitude = BoundsOf(hash).max_longitude
       /\ GeohashDecode(e).halves.longitude > GeohashDecode(hash).halves.longitude

\* C15 as stated: for every valid hash the north neighbour and the east
\* neighbour share the cell's northern and eastern edge.
C15_NeighboursShareBorder ==
    is_valid_geohash_string(geo_hash, Len(geo_hash))
       => NorthSharesBorder(geo_hash) /\ EastSharesBorder(geo_hash)

\* C15 as amended: the north neighbour shares the northern edge when the cell
\* ends below latitude 90, and the east neighbour the eastern edge when the
\* cell ends before longitude 180.  Of a cell that reaches latitude 90 the
\* north neighbour is the cell over the same longitudes that starts at
\* latitude -90; of a cell that reaches longitude 180 the east neighbour is the
\* cell over the same latitudes that starts at longitude -180.
C15_NeighboursShareBorderInsideTheWorld ==
    is_valid_geohash_string(geo_hash, Len(geo_hash))
       => LET b == BoundsOf(geo_hash)
              n == BoundsOf(Neighbour(geo_hash, GEOHASH_NORTH))
              e == BoundsOf(Neighbour(geo_hash, GEOHASH_EAST))
          IN /\ IF b.max_latitude < MAX_LATITUDE THEN NorthSharesBorder(geo_hash)
                ELSE /\ n.min_latitude = MIN_LATITUDE
                     /\ n.min_longitude = b.min_longitude
                     /\ n.max_longitude = b.max_longitude
             /\ IF b.max_longitude < MAX_LONGITUDE THEN EastSharesBorder(geo_hash)
                ELSE /\ e.min_longitude = MIN_LONGITUDE
                     /\ e.min_latitude = b.min_latitude
                     /\ e.max_latitude = b.max_latitude

\* The caller has moved north to a 12-character hash whose every character
\* changed in the move, and the cell it came from ends where this one starts.
C15_Witness ==
    /\ geo_moves = <<GEOHASH_NORTH>>
    /\ Len(geo_hash) = GEOHASH_MAX_PRECISION
    /\ \A i \in 1..Len(geo_hash) : geo_trail[1][i] # geo_hash[i]
    /\ BoundsOf(geo_trail[1]).max_latitude = BoundsOf(geo_hash).min_latitude
    /\ BoundsOf(geo_hash).min_latitude = 0

\* geohash_encode of the point geohash_decode has written.  The centre of a
\* cell of 12 characters lies half a unit off the grid in latitude (and on
\* the grid in longitude), so the latitude is carried in half units: the
\* range the loop starts from and the range a valid point lies in are in half
\* units too, and each comparison with a midpoint is the one the code makes.
EncodeDecoded(halves, precision) ==
    LET point == [latitude |-> halves.latitude, longitude |-> halves.longitude \div 2]
        start == [EncodeStart EXCEPT !.min_lat = 2 * MIN_LATITUDE,
                                     !.max_lat = 2 * MAX_LATITUDE]
    IN IF ~(/\ point.latitude >= 2 * MIN_LATITUDE /\ point.latitude <= 2 * MAX_LATITUDE
            /\ point.longitude >= MIN_LONGITUDE /\ point.longitude <= MAX_LONGITUDE)
       THEN [err |-> GEOHASH_ERROR_INVALID_POINT, hash |-> <<>>]
       ELSE IF precision = 0 \/ precision > GEOHASH_MAX_PRECISION
       THEN [err |-> GEOHASH_ERROR_INVALID_PRECISION, hash |-> <<>>]
       ELSE [err |-> GEOHASH_OK, hash |-> EncodeLoop(point, precision, start)]

\* C39: for a valid hash h of length n in 1..12, geohash_decode succeeds and
\* returns the midpoint of the bounds of h, and geohash_encode of that point
\* at precision n succeeds and gives back h.
C39_EncodeOfDecodeIsTheHash ==
    is_valid_geohash_string(geo_hash, Len(geo_hash))
       => LET d == GeohashDecode(geo_hash)
              b == GeohashGetBounds(geo_hash).bounds
              e == EncodeDecoded(d.halves, Len(geo_hash))
          IN /\ d.err = GEOHASH_OK
             /\ d.halves.latitude = b.min_latitude + b.max_latitude
             /\ d.halves.longitude = b.min_longitude + b.max_longitude
             /\ d.halves.longitude % 2 = 0
             /\ geo_bounds # NoBounds => geo_bounds = b
             /\ e.err = GEOHASH_OK
             /\ e.hash = geo_hash

\* The bounds of a 12-character hash the caller has reached by a move have
\* been computed; their centre is half a unit off the grid in latitude, and
\* the hash is neither the south-west nor the north-east corner of the world.
C39_Witness ==
    /\ geo_call.op = "get_bounds"
    /\ geo_err = GEOHASH_OK
    /\ geo_moves # <<>>
    /\ Len(geo_hash) = GEOHASH_MAX_PRECISION
    /\ (geo_bounds.min_latitude + geo_bounds.max_latitude) % 2 = 1
    /\ \E i \in 1..Len(geo_hash) : geo_hash[i] \notin {"0", "z"}
    /\ EncodeDecoded(GeohashDecode(geo_hash).halves, Len(geo_hash)).hash = geo_hash

\* The characters of the geohash alphabet.
AlphabetChars ==
    {"0", "1", "2", "3", "4", "5", "6", "7", "8", "9", "b", "c", "d", "e", "f", "g",
     "h", "j", "k", "m", "n", "p", "q", "r", "s", "t", "u", "v", "w", "x", "y", "z"}

\* The hash is absent or empty, longer than 12 characters, or holds a
\* character that is not of the alphabet.
Malformed(hash) ==
    \/ Len(hash) = 0
    \/ Len(hash) > 12
    \/ \E i \in 1..Len(hash) : hash[i] \notin AlphabetChars

\* C24: for the caller's hash, geohash_get_bounds and geohash_decode return
\* GEOHASH_ERROR_INVALID_HASH exactly when the hash is malformed, and
\* geohash_get_adjacent exactly when the hash is malformed or the direction
\* is none of the four; a call that returns it writes no output and leaves
\* every allocation untaken.
C24_InvalidHashExactlyWhenMalformed ==
    /\ LET r == GeohashGetBounds(geo_hash)
       IN /\ r.err = GEOHASH_ERROR_INVALID_HASH <=> Malformed(geo_hash)
          /\ Malformed(geo_hash) => r.bounds = NoBounds
          /\ ~Malformed(geo_hash) => r.err = GEOHASH_OK
    /\ LET r == GeohashDecode(geo_hash)
       IN /\ r.err = GEOHASH_ERROR_INVALID_HASH <=> Malformed(geo_hash)
          /\ Malformed(geo_hash) => r.halves = NoPoint
          /\ ~Malformed(geo_hash) => r.err = GEOHASH_OK
    /\ \A direction \in CallerDirections, mallocs \in MallocBudgets :
          LET r == GeohashGetAdjacent(geo_hash, direction, mallocs)
              refused == Malformed(geo_hash) \/ direction \notin {0, 1, 2, 3}
          IN /\ r.err = GEOHASH_ERROR_INVALID_HASH <=> refused
             /\ refused => r.hash = <<>> /\ r.mallocs = mallocs
             /\ (~refused /\ mallocs = EnoughMallocs) => r.err = GEOHASH_OK
    /\ geo_call.op = "get_bounds"
          => /\ geo_err = GEOHASH_ERROR_INVALID_HASH <=> Malformed(geo_hash)
             /\ Malformed(geo_hash) => geo_bounds = NoBounds

\* geohash_get_bounds has refused a hash of thirteen characters of the
\* alphabet.
C24_Witness ==
    /\ geo_call.op = "get_bounds"
    /\ Len(geo_hash) = 13
    /\ \A i \in 1..Len(geo_hash) : geo_hash[i] \in AlphabetChars
    /\ geo_err = GEOHASH_ERROR_INVALID_HASH
    /\ geo_bounds = NoBounds

\* The point lies outside the range of latitudes or of longitudes.
OutOfRange(point) ==
    \/ point.latitude < MIN_LATITUDE \/ point.latitude > MAX_LATITUDE
    \/ point.longitude < MIN_LONGITUDE \/ point.longitude > MAX_LONGITUDE

\* C23: geohash_encode of a point outside [-90, 90] x [-180, 180] returns
\* GEOHASH_ERROR_INVALID_POINT whatever the precision; of a point inside and a
\* precision of 0 or above 12, GEOHASH_ERROR_INVALID_PRECISION; in both cases
\* the result holds no hash and malloc was not called.
C23_EncodeRejectsPointThenPrecision ==
    geo_call.op = "encode"
       => /\ OutOfRange(geo_point)
             => /\ geo_err = GEOHASH_ERROR_INVALID_POINT
                /\ geo_hash = <<>>
                /\ geo_call.malloc_calls = 0
          /\ (~OutOfRange(geo_point)
              /\ (geo_precision = 0 \/ geo_precision > 12))
             => /\ geo_err = GEOHASH_ERROR_INVALID_PRECISION
                /\ geo_hash = <<>>
                /\ geo_call.malloc_calls = 0

\* geohash_encode was given a point out of range together with a precision
\* above 12, and returned GEOHASH_ERROR_INVALID_POINT.
C23_Witness ==
    /\ geo_call.op = "encode"
    /\ OutOfRange(geo_point)
    /\ geo_precision > 12
    /\ geo_err = GEOHASH_ERROR_INVALID_POINT

\* Inside geohash_get_all_adjacent itself the buffers balance: after a failure
\* all are freed once, after a success exactly the eight of the result are
\* live.
AllAdjacentBalances ==
    geo_call.op = "get_all_adjacent"
       => /\ ~geo_call.double_free
          /\ IF geo_err # GEOHASH_OK
             THEN /\ geo_call.freed = geo_call.allocated
                  /\ \A f \in AdjacentFields : geo_call.result[f].ptr # "live"
             ELSE /\ geo_call.allocated = geo_call.freed + Len(AdjacentSteps)
                  /\ \A f \in AdjacentFields : geo_call.result[f].ptr = "live"

(***************************************************************************)
(*                   SKETCH CATALOG  (src/storage.c)                       *)
(*                                                                         *)
(* A name is the sequence of its characters.  create_cms_store copies the  *)
(* name with strcpy into a buffer of strlen(name) bytes, so the            *)
(* terminating byte is written one past the end of the buffer: whether it  *)
(* is still there when the name is read again is not defined, and both     *)
(* outcomes are modelled.  init_storage leaves the head of the list it     *)
(* allocates unset: it reads as null or as a pointer to nowhere.           *)
(***************************************************************************)

REDIS_OK == 0
REDIS_FAILED_CMS_BEGIN == -101
REDIS_CMS_SKETCH_EXISTED == REDIS_FAILED_CMS_BEGIN

MaxCreates == 3

SketchNames == {<<"a">>, <<"b">>, <<"a", "b">>}

\* A byte that is neither a character of a name nor the terminating byte.
StrayByte == "?"

\* The C string read from the name buffer of a catalog entry.
StoredName(node_val) ==
    IF node_val.terminated THEN node_val.name
    ELSE Append(node_val.name, StrayByte)

\* strcmp: 0 exactly when the two strings have the same bytes.
strcmp(a, b) == IF a = b THEN 0 ELSE 1

\* The while loop of create_cms_store: does the scan from the head meet an
\* entry whose name compares equal?
ScanFinds(nodes, sketch_name) ==
    \E i \in 1..Len(nodes) : strcmp(sketch_name, StoredName(nodes[i])) = 0

\* cms_init_by_dim(cms, 100, 5) on a newly allocated CountMinSketch.
NewSketch(id) == [id |-> id, width |-> 100, depth |-> 5]

\* g_cms_storage before init_storage: the null pointer.
NoList == [null |-> TRUE]

\* The unset head of a list nothing was linked to reads as no null pointer.
HeadPointsNowhere(storage) == ~storage.head_is_null /\ storage.nodes = <<>>

StoreInit ==
    /\ g_initialized = FALSE
    /\ g_cms_storage = NoList
    /\ store_crashed = FALSE
    /\ store_made = 0
    /\ store_last = [op |-> "none"]

\* init_storage; head_is_null is what the unset head of the new list reads as.
InitStorage(head_is_null) ==
    /\ ~store_crashed
    /\ IF g_initialized
       THEN UNCHANGED g_cms_storage
       ELSE g_cms_storage' = [head_is_null |-> head_is_null, nodes |-> <<>>]
    /\ store_last' = [op |-> "init_storage", rc |-> REDIS_OK]
    /\ UNCHANGED <<g_initialized, store_crashed, store_made, notStore>>

SaveToFile ==
    /\ ~store_crashed
    /\ store_last' = [op |-> "save_to_file", rc |-> REDIS_OK]
    /\ UNCHANGED <<g_initialized, g_cms_storage, store_crashed, store_made, notStore>>

LoadFromFile ==
    /\ ~store_crashed
    /\ store_last' = [op |-> "load_from_file", rc |-> REDIS_OK]
    /\ UNCHANGED <<g_initialized, g_cms_storage, store_crashed, store_made, notStore>>

\* create_cms_store(sketch_name); terminated is whether the byte strcpy wrote
\* past the name buffer is still the terminating byte when the call returns.
CreateCmsStore(sketch_name, terminated) ==
    /\ ~store_crashed
    /\ store_made < MaxCreates
    /\ IF g_cms_storage = NoList \/ HeadPointsNowhere(g_cms_storage)
       THEN \* g_cms_storage->head of no list, or a walk from a head that points nowhere
            /\ store_crashed' = TRUE
            /\ store_last' = [op |-> "create", name |-> sketch_name,
                              present |-> FALSE, before |-> g_cms_storage]
            /\ UNCHANGED <<g_cms_storage, store_made>>
       ELSE LET nodes == g_cms_storage.nodes
                present == \E i \in 1..Len(nodes) : nodes[i].name = sketch_name
            IN IF ScanFinds(nodes, sketch_name)
               THEN /\ store_last' = [op |-> "create", name |-> sketch_name,
                                      rc |-> REDIS_CMS_SKETCH_EXISTED,
                                      present |-> present, before |-> g_cms_storage]
                    /\ UNCHANGED <<g_cms_storage, store_made, store_crashed>>
               ELSE /\ g_cms_storage' =
                          [g_cms_storage EXCEPT
                             !.nodes = Append(nodes, [name |-> sketch_name,
                                                      terminated |-> terminated,
                                                      container |-> NewSketch(store_made + 1)])]
                    /\ store_made' = store_made + 1
                    /\ store_last' = [op |-> "create", name |-> sketch_name, rc |-> REDIS_OK,
                                      present |-> present, before |-> g_cms_storage]
                    /\ UNCHANGED store_crashed
    /\ UNCHANGED <<g_initialized, notStore>>

\* ---- the commands (src/command/cmd.h, src/command/cmd_cms.h, src/cmd_handler.c) ----

\* CommandType
CMD_PING == 0
CMD_CMS == 6

\* CMD_cms_type
CMS_INITBYDIM == 0
CMS_INITBYPROB == 1
CMS_INCRBY == 2
CMS_QUERY == 3

REDIS_FAILED_COMMON_BEGIN == -1
REDIS_CMD_NULL == REDIS_FAILED_COMMON_BEGIN
REDIS_SUB_CMD_NOT_FOUND == REDIS_FAILED_COMMON_BEGIN - 2

\* The (width, depth) pairs a client asks for.
RequestedDims == {<<100, 5>>, <<2, 3>>}

\* A Command: its type, its sub_cmd and its arguments; for CMS_INITBYDIM the
\* arguments are the sketch name, the width and the depth.  arg[1] is the
\* source's arg[0].
Commands ==
    [type : {CMD_PING, CMD_CMS},
     sub_cmd : {CMS_INITBYDIM, CMS_INITBYPROB, CMS_INCRBY, CMS_QUERY, CMS_QUERY + 1},
     arg : {<<n, d[1], d[2]>> : n \in SketchNames, d \in RequestedDims}]

\* The null Command pointer.
NoCommand == [null |-> TRUE]

\* A handler that returns rc and touches nothing.
CommandReturns(rc) ==
    /\ store_last' = [op |-> "command", rc |-> rc]
    /\ UNCHANGED <<g_initialized, g_cms_storage, store_crashed, store_made, notStore>>

\* handle_ping
HandlePing == CommandReturns(REDIS_OK)

\* handle_cms_command(cmd)
HandleCmsCommand(cmd, terminated) ==
    IF cmd.sub_cmd = CMS_INITBYDIM THEN CreateCmsStore(cmd.arg[1], terminated)
    ELSE CommandReturns(REDIS_SUB_CMD_NOT_FOUND)

\* handle_command(cmd)
HandleCommand(cmd, terminated) ==
    /\ ~store_crashed
    /\ IF cmd = NoCommand THEN CommandReturns(REDIS_CMD_NULL)
       ELSE IF cmd.type = CMD_PING THEN HandlePing
       ELSE IF cmd.type = CMD_CMS THEN HandleCmsCommand(cmd, terminated)
       ELSE CommandReturns(REDIS_OK)

StoreNext ==
    \/ \E head_is_null \in BOOLEAN : InitStorage(head_is_null) /\ UNCHANGED serverVars
    \/ SaveToFile /\ UNCHANGED serverVars
    \/ LoadFromFile /\ UNCHANGED serverVars
    \/ \E sketch_name \in SketchNames, terminated \in BOOLEAN :
          CreateCmsStore(sketch_name, terminated) /\ UNCHANGED serverVars
    \/ \E cmd \in Commands \cup {NoCommand}, terminated \in BOOLEAN :
          HandleCommand(cmd, terminated) /\ UNCHANGED serverVars

StoreIdle ==
    /\ g_initialized = FALSE
    /\ g_cms_storage = NoList
    /\ store_crashed = FALSE
    /\ store_made = 0
    /\ store_last = [op |-> "none"]

\* ---- what the catalog claims speak of ----

\* C6: a create of a name that an entry of the catalog was created with returns
\* REDIS_CMS_SKETCH_EXISTED and leaves the catalog as it was: no entry added,
\* none replaced, no sketch reset.
C6_DuplicateCreateFails ==
    (store_last.op = "create" /\ store_last.present)
       => /\ store_last.rc = REDIS_CMS_SKETCH_EXISTED
          /\ g_cms_storage = store_last.before

\* An entry of the catalog was created with this name.
InCatalog(storage, name) ==
    /\ storage # NoList
    /\ \E i \in 1..Len(storage.nodes) : storage.nodes[i].name = name

\* C19: no call of init_storage, save_to_file, load_from_file or
\* create_cms_store takes a name out of the catalog, and a create of a name
\* that is in the catalog returns REDIS_CMS_SKETCH_EXISTED.
C19_EntriesPersist ==
    [][/\ \A name \in SketchNames :
             InCatalog(g_cms_storage, name) => InCatalog(g_cms_storage', name)
       /\ (store_last'.op = "create" /\ InCatalog(g_cms_storage, store_last'.name))
             => store_last'.rc = REDIS_CMS_SKETCH_EXISTED]_vars

\* C20: when a CMS_INITBYDIM command for a name, a width and a depth creates
\* an entry, the sketch of the entry has that width and that depth.
C20_CreateUsesRequestedDims ==
    [][\A cmd \in Commands, terminated \in BOOLEAN :
          (/\ cmd.type = CMD_CMS /\ cmd.sub_cmd = CMS_INITBYDIM
           /\ HandleCommand(cmd, terminated)
           /\ store_made' = store_made + 1)
             => LET nodes == g_cms_storage'.nodes
                    entry == nodes[Len(nodes)]
                IN /\ entry.name = cmd.arg[1]
                   /\ entry.container.width = cmd.arg[2]
                   /\ entry.container.depth = cmd.arg[3]]_vars

\* The catalog holds one entry for each create that returned REDIS_OK.
HoldsEveryCreate(storage, made) ==
    /\ storage # NoList
    /\ Len(storage.nodes) = made

\* No two entries of the catalog were created with the same name.
NamesDiffer(nodes) ==
    \A i, j \in 1..Len(nodes) : i # j => nodes[i].name # nodes[j].name

\* C21: on an initialized catalog that holds every name created so far, each
\* once, a create of a further name returns REDIS_OK and appends an entry of
\* that name with a sketch of its own, so that the entries are the creates in
\* creation order under pairwise distinct names; and no later call drops or
\* adds an entry.
C21_DistinctCreatesAllSucceed ==
    [][/\ \A name \in SketchNames, terminated \in BOOLEAN :
             (/\ HoldsEveryCreate(g_cms_storage, store_made)
              /\ NamesDiffer(g_cms_storage.nodes)
              /\ ~InCatalog(g_cms_storage, name)
              /\ CreateCmsStore(name, terminated))
                => /\ ~store_crashed'
                   /\ store_last'.rc = REDIS_OK
                   /\ LET nodes == g_cms_storage'.nodes
                      IN /\ Len(nodes) = Len(g_cms_storage.nodes) + 1
                         /\ nodes[Len(nodes)].name = name
                         /\ \A i \in 1..Len(nodes) : nodes[i].container.id = i
                         /\ NamesDiffer(nodes)
       /\ HoldsEveryCreate(g_cms_storage, store_made)
             => HoldsEveryCreate(g_cms_storage', store_made')]_vars

(***************************************************************************)
(*      THE BIN GRID OF A SKETCH OF ANY WIDTH AND DEPTH                    *)
(*      (src/data_structure/count_min_sketch.c)                            *)
(*                                                                         *)
(* width, depth and the bin indices are unsigned 32-bit values, written    *)
(* U32(hi, lo) as above: the value is hi * 2^31 + lo.  Only the number of  *)
(* counters of the grid is kept, not the counters.                         *)
(***************************************************************************)

Half == 2^16

\* The two 16-bit halves of a uint32.
High16(x) == x.hi * (Half \div 2) + (x.lo \div Half)
Low16(x) == x.lo % Half

\* The uint32 of two 16-bit halves.
OfHalves(high, low) ==
    U32(high \div (Half \div 2), (high % (Half \div 2)) * Half + low)

\* a * b for two 16-bit values, as the two 16-bit halves of the product.
Mul16(a, b) ==
    LET p1 == a * (b % 256)
        p2 == a * (b \div 256)
        s == p1 + (p2 % 256) * 256
    IN [high |-> (p2 \div 256) + (s \div Half), low |-> s % Half]

\* x * y of two uint32 values: the product modulo 2^32, and whether the
\* product is 2^32 or more.
U32MulWide(x, y) ==
    LET ll == Mul16(Low16(x), Low16(y))
        hl == Mul16(High16(x), Low16(y))
        lh == Mul16(Low16(x), High16(y))
        cross == hl.low + lh.low + ll.high
    IN [product |-> OfHalves(cross % Half, ll.low),
        wraps |-> \/ High16(x) # 0 /\ High16(y) # 0
                  \/ hl.high # 0
                  \/ lh.high # 0
                  \/ cross >= Half]

\* x * y in unsigned int.
U32Mul(x, y) == U32MulWide(x, y).product

\* x + y of two uint32 values in 64 bits: [carry, low] is carry * 2^32 + low.
U32AddWide(x, y) ==
    LET low == (x.lo - INT32_MAX) + y.lo  \* x.lo + y.lo - INT32_MAX
        lo31 == IF low > 0 THEN low - 1 ELSE low + INT32_MAX
        c31 == IF low > 0 THEN 1 ELSE 0
        top == x.hi + y.hi + c31
    IN [carry |-> top \div 2, low |-> U32(top % 2, lo31)]

U32Less(x, y) == x.hi < y.hi \/ (x.hi = y.hi /\ x.lo < y.lo)

\* hashes[i] % cms->width for a hash below 2^31.
HashModWidth(hash, width) ==
    IF width.hi = 1 THEN U32(0, hash) ELSE U32(0, hash % width.lo)

\* uint64_t bin = (hashes[i] % cms->width) + (i * cms->width) of cms_add_inc_alt.
BinIndex64(hash, i, width) ==
    U32AddWide(HashModWidth(hash, width), U32Mul(i, width))

\* uint32_t bin = ... of cms_remove_inc_alt, cms_check_alt and cms_check_mean_alt.
BinIndex32(hash, i, width) ==
    [carry |-> 0, low |-> BinIndex64(hash, i, width).low]

NoBins == [null |-> TRUE]

CMS_SUCCESS == 0

\* calloc(nmemb, sizeof(int32_t)): NULL when the allocation fails; for
\* nmemb = 0 the build returns NULL or a pointer to no counter.
Calloc(nmemb, succeeds) == IF succeeds THEN nmemb ELSE NoBins

\* __setup_cms
SetupCms(width, depth, succeeds) ==
    LET bins == Calloc(U32Mul(width, depth), succeeds)
    IN [width |-> width, depth |-> depth, bins |-> bins, elements_added |-> 0,
        rc |-> IF bins = NoBins THEN CMS_ERROR ELSE CMS_SUCCESS]

\* cms_init_by_dim
CmsInitByDim(width, depth, succeeds) ==
    IF U32Less(depth, U32(0, 1)) \/ U32Less(width, U32(0, 1))
    THEN [width |-> width, depth |-> depth, bins |-> NoBins, elements_added |-> 0,
          rc |-> CMS_ERROR]
    ELSE SetupCms(width, depth, succeeds)

\* ---- the inputs ----

\* Widths and depths a caller passes.
SetupDims ==
    {U32(0, 0), U32(0, 1), U32(0, 2), U32(0, 3), U32(0, Half - 1), U32(0, Half),
     U32(0, Half + 1), U32(0, INT32_MAX), U32(1, 0), U32(1, 1), U32(1, INT32_MAX)}

\* Hash values of a key.
SetupHashes == {0, 1, 2, Half, INT32_MAX}

\* depth - 1 for a depth of 1 or more.
LastRow(depth) ==
    IF depth.lo > 0 THEN U32(depth.hi, depth.lo - 1) ELSE U32(0, INT32_MAX)

\* Rows the loops of the operations pass through: i < cms->depth.
SetupRows(depth) ==
    {i \in SetupDims \cup {LastRow(depth)} : U32Less(i, depth)}

\* The greatest depth of a sketch whose rows cms_check is followed through.
MaxCheckRows == 2

\* What reads as a counter outside the grid.
Garbage == {INT32_MIN, -1, 0, 1}

\* cms->bins[bin] of a sketch nothing was added to: calloc has set the
\* counters of the grid to 0; a bin at or past their number is read from
\* outside the allocation.
FreshBin(bin, bins, garbage) ==
    IF U32Less(bin.low, bins)
    THEN [value |-> 0, undefined |-> FALSE]
    ELSE [value |-> garbage, undefined |-> TRUE]

\* The for loop of cms_check_alt on such a sketch, from row i on.
RECURSIVE FreshCheckLoop(_, _, _, _, _, _)
FreshCheckLoop(bins, width, depth, hashes, garbage, st) ==
    IF ~(st.i < depth) THEN [ret |-> st.num_add, undefined |-> st.undefined]
    ELSE LET read == FreshBin(BinIndex32(hashes[st.i], U32(0, st.i), width),
                              bins, garbage)
         IN FreshCheckLoop(bins, width, depth, hashes, garbage,
                           [i |-> st.i + 1,
                            num_add |-> IF read.value < st.num_add
                                        THEN read.value ELSE st.num_add,
                            undefined |-> st.undefined \/ read.undefined])

\* cms_check on a sketch nothing was added to, of a depth below 2^31.
FreshCheck(bins, width, depth, hashes, garbage) ==
    FreshCheckLoop(bins, width, depth, hashes, garbage,
                   [i |-> 0, num_add |-> INT32_MAX, undefined |-> FALSE])

\* ---- the calls ----

SetupInit == cms_setup = [op |-> "none"]

CmsInitByDimCall(width, depth, succeeds) ==
    /\ cms_setup' = [op |-> "init"] @@ CmsInitByDim(width, depth, succeeds)
    /\ UNCHANGED notSetup

\* One pass of the loop of an operation on the initialized sketch: row i of
\* a key whose hash for that row is hash.
BinIndexCall(fn, hash) ==
    /\ cms_setup.op # "none"
    /\ cms_setup.rc = CMS_SUCCESS
    /\ \E i \in SetupRows(cms_setup.depth) :
          cms_setup' = [op |-> fn, width |-> cms_setup.width,
                        depth |-> cms_setup.depth, bins |-> cms_setup.bins,
                        elements_added |-> cms_setup.elements_added,
                        rc |-> cms_setup.rc, hash |-> hash, i |-> i,
                        bin |-> IF fn = "add"
                                THEN BinIndex64(hash, i, cms_setup.width)
                                ELSE BinIndex32(hash, i, cms_setup.width)]
    /\ UNCHANGED notSetup

\* cms_check(cms, key) right after the successful cms_init_by_dim; hashes are
\* the hashes of the key.
CmsCheckFreshCall(garbage) ==
    /\ cms_setup.op = "init"
    /\ cms_setup.rc = CMS_SUCCESS
    /\ cms_setup.depth.hi = 0
    /\ cms_setup.depth.lo <= MaxCheckRows
    /\ \E hashes \in [0..(cms_setup.depth.lo - 1) -> SetupHashes] :
          cms_setup' = [op |-> "cms_check", width |-> cms_setup.width,
                        depth |-> cms_setup.depth, bins |-> cms_setup.bins,
                        elements_added |-> cms_setup.elements_added,
                        rc |-> cms_setup.rc, hashes |-> hashes,
                        check |-> FreshCheck(cms_setup.bins, cms_setup.width,
                                             cms_setup.depth.lo, hashes, garbage)]
    /\ UNCHANGED notSetup

SetupNext ==
    \/ \E width \in SetupDims, depth \in SetupDims, succeeds \in BOOLEAN :
          CmsInitByDimCall(width, depth, succeeds)
    \/ \E garbage \in Garbage : CmsCheckFreshCall(garbage)
    \/ \E fn \in {"add", "remove", "check", "check_mean"}, hash \in SetupHashes :
          BinIndexCall(fn, hash)

SetupIdle == cms_setup = [op |-> "none"]

\* ---- what the claim about the bin grid speaks of ----

\* The operation has computed a bin index for a row of the sketch.
BinComputed == cms_setup.op \in {"add", "remove", "check", "check_mean"}

\* C22: after a successful cms_init_by_dim(width, depth) the grid holds
\* width * depth counters, the product not wrapping, and the bin index an
\* operation computes for row i < depth is (hash mod width) + i * width with
\* nothing wrapping, below the number of counters and within row i.
C22_BinIndexInsideGrid ==
    (cms_setup.op # "none" /\ cms_setup.rc = CMS_SUCCESS)
       => LET width == cms_setup.width
              depth == cms_setup.depth
          IN /\ ~U32MulWide(width, depth).wraps
             /\ cms_setup.bins = U32MulWide(width, depth).product
             /\ BinComputed
                   => LET row == U32MulWide(cms_setup.i, width)
                          sum == U32AddWide(HashModWidth(cms_setup.hash, width),
                                            row.product)
                      IN /\ ~row.wraps
                         /\ sum.carry = 0
                         /\ cms_setup.bin = sum
                         /\ U32Less(cms_setup.bin.low, cms_setup.bins)
                         /\ ~U32Less(cms_setup.bin.low, row.product)

\* C38: the bin an add or a remove changes in row i is the bin at column
\* hash mod width of row i: a counter of the grid, at or after the first
\* counter of row i and before the first counter of row i + 1, so that every
\* other bin and the fields width and depth are left as they were.
C38_UpdateChangesOwnBinOnly ==
    cms_setup.op \in {"add", "remove"}
       => LET width == cms_setup.width
              row == U32MulWide(cms_setup.i, width)
              column == HashModWidth(cms_setup.hash, width)
          IN /\ ~row.wraps
             /\ cms_setup.bin = U32AddWide(column, row.product)
             /\ cms_setup.bin.carry = 0
             /\ U32Less(cms_setup.bin.low, cms_setup.bins)
             /\ U32Less(column, width)

\* C25: a sketch cms_init_by_dim has just set up, for a width and a depth
\* of 1 or more, has elements_added = 0 and a grid of zeroed counters, and
\* cms_check returns 0 on it for every key, every counter it reads being one
\* of the grid.
C25_FreshSketchChecksZero ==
    (cms_setup.op \in {"init", "cms_check"} /\ cms_setup.rc = CMS_SUCCESS)
       => /\ cms_setup.elements_added = 0
          /\ cms_setup.bins # NoBins
          /\ cms_setup.op = "cms_check"
                => /\ ~cms_setup.check.undefined
                   /\ cms_setup.check.ret = 0

(***************************************************************************)
(*     THE LEVEL GENERATOR OF A SKIP LIST  (src/data_structure/skip_list.c) *)
(*                                                                         *)
(* list->rng_state is a uint32, U32(hi, lo) as above.  skiplist_create     *)
(* seeds it with time(NULL) ^ the list's address, 1 when that is 0: any    *)
(* uint32 but 0.                                                           *)
(***************************************************************************)

\* Calls of random_level on one list.
MaxDraws == 3

LcgMultiplier == U32(0, 1664525)
LcgIncrement == U32(0, 1013904223)

\* fast_rand: rng_state * 1664525u + 1013904223u, in unsigned int
FastRand(rng_state) == U32AddWide(U32Mul(rng_state, LcgMultiplier), LcgIncrement).low

\* rnd & 3
LowGroup(rnd) == rnd.lo % 4

\* rnd >> 2
ShiftGroup(rnd) == U32(0, rnd.hi * (2^29) + (rnd.lo \div 4))

\* The while loop of random_level.
RECURSIVE RandomLevelLoop(_, _)
RandomLevelLoop(rnd, level) ==
    IF LowGroup(rnd) = 0 /\ level < MAX_LEVEL
    THEN RandomLevelLoop(ShiftGroup(rnd), level + 1)
    ELSE level

\* random_level, for the word fast_rand returned
RandomLevel(rnd) == RandomLevelLoop(rnd, 1)

\* The 2-bit groups of a uint32, lowest first, and the uint32 of 16 groups.
GroupsInWord == 16

OfGroups(g) ==
    LET RECURSIVE Low(_)
        Low(k) == IF k = 0 THEN 0 ELSE Low(k - 1) * 4 + g[GroupsInWord - k]
    IN U32(g[GroupsInWord] \div 2, (g[GroupsInWord] % 2) * (2^30) + Low(GroupsInWord - 1))

\* The k-th 2-bit group random_level looks at: a group of the word, and zero
\* once the word is shifted out.
Group(rnd, k) ==
    IF k > GroupsInWord THEN 0
    ELSE IF k = GroupsInWord THEN rnd.hi * 2 + (rnd.lo \div (2^30))
    ELSE (rnd.lo \div (4^(k - 1))) % 4

\* Words fast_rand returns: 0, and for each group of the word the words
\* whose lowest non-zero group it is, with nothing but zeros above it and
\* with nothing but ones above it.
GeneratorWords ==
    {OfGroups([k \in 1..GroupsInWord |-> 0])}
    \cup {OfGroups([k \in 1..GroupsInWord |->
                      IF k < first THEN 0 ELSE IF k = first THEN low ELSE above]) :
            first \in 1..GroupsInWord, low \in 1..3, above \in {0, 3}}

\* The rng_state from which fast_rand returns rnd: fast_rand is one-to-one,
\* (rnd - 1013904223) * 4276115653 undoes it.
StateBefore(rnd) ==
    U32Mul(U32AddWide(rnd, U32(1, 1133579425)).low, U32(1, 2128632005))

\* The states the generators of the lists start in.
Seeds == {StateBefore(rnd) : rnd \in GeneratorWords} \ {U32(0, 0)}

RngInit ==
    \E seed \in Seeds : rng = [rng_state |-> seed, level |-> 0, draws |-> 0]

\* random_level(list)
RandomLevelCall ==
    /\ rng.draws < MaxDraws
    /\ LET rnd == FastRand(rng.rng_state)
       IN rng' = [rng_state |-> rnd, level |-> RandomLevel(rnd), draws |-> rng.draws + 1]
    /\ UNCHANGED <<slVars, cmsVars, geoVars, storeVars, setupVars, b32Vars, raceVars,
                   serverVars, replicaVars>>

RngNext == RandomLevelCall

RngIdle == rng = [op |-> "none"]

\* ---- what the claim about random_level speaks of ----

\* The first k-1 groups random_level looks at are zero and the k-th is not.
FirstNonZeroGroup(rnd, k) ==
    /\ \A j \in 1..(k - 1) : Group(rnd, j) = 0
    /\ Group(rnd, k) # 0

\* C33: random_level returns a level in 1..MAX_LEVEL; it returns k < MAX_LEVEL
\* exactly when the first k-1 groups are zero and the k-th is not; and every
\* level of 1..MAX_LEVEL is returned for some word of the generator.
C33_RandomLevelIsGeometric ==
    /\ rng.draws > 0 =>
          /\ rng.level \in 1..MAX_LEVEL
          /\ \A k \in 1..(MAX_LEVEL - 1) :
                rng.level = k <=> FirstNonZeroGroup(rng.rng_state, k)
    /\ \A k \in 1..MAX_LEVEL : \E rnd \in GeneratorWords : RandomLevel(rnd) = k

(***************************************************************************)
(*                 BASE32  (src/util/base32.h)                             *)
(*                                                                         *)
(* The repository declares base32_encode and base32_decode and tests       *)
(* them; their definitions are not in it.  They are modelled from section  *)
(* 4.4 of the specification: blocks of 5 bytes map to 8 characters of the  *)
(* RFC 4648 alphabet, the last block zero-padded and its unused            *)
(* characters replaced by '='.  A byte is a number 0..255, a text the      *)
(* sequence of its characters.                                             *)
(***************************************************************************)

RFC4648_ALPHABET ==
    <<"A", "B", "C", "D", "E", "F", "G", "H", "I", "J", "K", "L", "M", "N", "O", "P",
      "Q", "R", "S", "T", "U", "V", "W", "X", "Y", "Z", "2", "3", "4", "5", "6", "7">>

PAD == "="

\* The null pointer in place of a byte buffer and in place of a text: a
\* sequence no byte sequence and no text equals.
NoBytes == <<-1>>
NoText == <<"NULL">>

\* Bit n of a byte sequence, its first bit being the high bit of its first
\* byte; 0 past its end (the zero padding of the last block).
ByteBit(bytes, n) ==
    IF n \div 8 + 1 > Len(bytes) THEN 0
    ELSE (bytes[n \div 8 + 1] \div (2^(7 - (n % 8)))) % 2

\* The character for the five bits from bit 5 * k on.
EncodeGroup(bytes, k) ==
    RFC4648_ALPHABET[16 * ByteBit(bytes, 5 * k) + 8 * ByteBit(bytes, 5 * k + 1)
                     + 4 * ByteBit(bytes, 5 * k + 2) + 2 * ByteBit(bytes, 5 * k + 3)
                     + ByteBit(bytes, 5 * k + 4) + 1]

\* (mutant of DataChars: the bits of the last character are dropped when they
\* do not fill it)
DataCharsRoundedDown(size) == (8 * size) \div 5

\* How many characters of the text of size bytes carry bits: 8 for each
\* block of 5 bytes, and 2, 4, 5 or 7 for a last block of 1, 2, 3 or 4 bytes.
DataChars(size) == (8 * size + 4) \div 5

\* base32_encode(input, size): the text, NoText for no input.
Base32Encode(input) ==
    IF input = NoBytes THEN NoText
    ELSE LET size == Len(input)
             length == 8 * ((size + 4) \div 5)
         IN [k \in 1..length |->
                IF k <= DataChars(size) THEN EncodeGroup(input, k - 1) ELSE PAD]

\* The 0-based place of a character in the alphabet, -1 for any other.
AlphabetIndex(c) ==
    LET at == {i \in 1..Len(RFC4648_ALPHABET) : RFC4648_ALPHABET[i] = c}
    IN IF at = {} THEN -1 ELSE (CHOOSE i \in at : TRUE) - 1

\* The length of the run of '=' the text ends with.
RECURSIVE TrailingPads(_)
TrailingPads(text) ==
    IF Len(text) = 0 \/ text[Len(text)] # PAD THEN 0
    ELSE 1 + TrailingPads(SubSeq(text, 1, Len(text) - 1))

\* The bytes of the last block for each valid number of trailing '='.
BytesOfPadding(pads) ==
    IF pads = 0 THEN 5 ELSE IF pads = 1 THEN 4 ELSE IF pads = 3 THEN 3
    ELSE IF pads = 4 THEN 2 ELSE IF pads = 6 THEN 1 ELSE -1

\* (mutant of Base32Accepts: any number of trailing '=' below 8 is taken)
Base32AcceptsAnyPadding(text) ==
    /\ Len(text) # 0
    /\ Len(text) % 8 = 0
    /\ LET pads == TrailingPads(text)
       IN /\ \A i \in 1..(Len(text) - pads) : AlphabetIndex(text[i]) # -1
          /\ pads < 8

\* The validation of base32_decode.
Base32Accepts(text) ==
    /\ Len(text) # 0
    /\ Len(text) % 8 = 0
    /\ LET pads == TrailingPads(text)
       IN /\ \A i \in 1..(Len(text) - pads) : AlphabetIndex(text[i]) # -1
          /\ BytesOfPadding(pads) # -1

\* Bit n of the text's characters, five to a character, high bit first.
TextBit(text, n) == (AlphabetIndex(text[n \div 5 + 1]) \div (2^(4 - (n % 5)))) % 2

\* The byte made of the eight bits from bit 8 * m on.
DecodeByte(text, m) ==
    128 * TextBit(text, 8 * m) + 64 * TextBit(text, 8 * m + 1)
    + 32 * TextBit(text, 8 * m + 2) + 16 * TextBit(text, 8 * m + 3)
    + 8 * TextBit(text, 8 * m + 4) + 4 * TextBit(text, 8 * m + 5)
    + 2 * TextBit(text, 8 * m + 6) + TextBit(text, 8 * m + 7)

\* base32_decode(input, &size): the bytes returned (NoBytes: null) and *size.
Base32Decode(input) ==
    IF input = NoText THEN [result |-> NoBytes, size |-> 0]
    ELSE IF ~Base32Accepts(input) THEN [result |-> NoBytes, size |-> 0]
    ELSE LET size == 5 * (Len(input) \div 8 - 1)
                     + BytesOfPadding(TrailingPads(input))
         IN [result |-> [m \in 1..size |-> DecodeByte(input, m - 1)], size |-> size]

\* ---- the inputs ----

MaxBytes == 6
MaxTextLen == 8

\* Bytes a caller encodes: each of them, in the model, one of these.
SomeBytes == {0, 102, 255}

RECURSIVE SeqsUpTo(_, _)
SeqsUpTo(S, n) ==
    IF n = 0 THEN {<<>>}
    ELSE LET shorter == SeqsUpTo(S, n - 1)
         IN shorter \cup {Append(q, x) : q \in {r \in shorter : Len(r) = n - 1}, x \in S}

ByteSeqs == SeqsUpTo(SomeBytes, MaxBytes)

\* Characters of a text a caller decodes: of the alphabet, the padding,
\* a lowercase letter.
SomeChars == {"A", "7", PAD, "a"}

\* Texts of up to MaxTextLen characters, and texts of two blocks whose first
\* block is full or padded.
Texts ==
    LET short == SeqsUpTo(SomeChars, MaxTextLen)
    IN short \cup {first \o t : first \in {Base32Encode(<<102>>), Base32Encode(<<0, 0, 0, 0, 0>>)},
                                t \in {<<"A", "A", "A", "A", "A", "A", "A", "A">>,
                                       <<"A", "A", PAD, PAD, PAD, PAD, PAD, PAD>>,
                                       <<"A", "A", "A", "A", "A", "A", PAD, PAD>>,
                                       <<PAD, PAD, PAD, PAD, PAD, PAD, PAD, PAD>>}}

\* ---- the calls ----

B32Init ==
    \/ \E bytes \in ByteSeqs \cup {NoBytes} :
          b32 = [op |-> "none", bytes |-> bytes, text |-> NoText]
    \/ \E text \in Texts :
          b32 = [op |-> "none", bytes |-> NoBytes, text |-> text]

\* text = base32_encode(bytes, size) for the caller's bytes.
Base32EncodeCall ==
    /\ b32.op = "none"
    /\ b32.text = NoText
    /\ b32' = [op |-> "encode", bytes |-> b32.bytes, text |-> Base32Encode(b32.bytes)]
    /\ UNCHANGED notB32

\* decoded = base32_decode(text, &size) for the caller's text.
Base32DecodeCall ==
    /\ b32.op \in {"none", "encode"}
    /\ b32.op = "none" => b32.text # NoText
    /\ b32' = [op |-> "decode", bytes |-> b32.bytes, text |-> b32.text,
               decoded |-> Base32Decode(b32.text)]
    /\ UNCHANGED notB32

B32Next == Base32EncodeCall \/ Base32DecodeCall

B32Idle == b32 = [op |-> "none"]

\* ---- what the base32 claims speak of ----

\* The caller has encoded its bytes and decoded the text it got.
RoundTripDone ==
    b32.op = "decode" /\ b32.bytes # NoBytes

\* C26 (as stated): for a byte sequence of any length, base32_decode of the
\* text base32_encode made of it returns those bytes and their number.
C26_RoundTrip ==
    RoundTripDone
       => /\ b32.decoded.result = b32.bytes
          /\ b32.decoded.size = Len(b32.bytes)

\* C26 (amended): the same for a byte sequence of one byte or more.
C26_RoundTripOfNonEmpty ==
    (RoundTripDone /\ Len(b32.bytes) >= 1)
       => /\ b32.decoded.result = b32.bytes
          /\ b32.decoded.size = Len(b32.bytes)

\* Six bytes, more than a block, have gone through and come back.
C26_Witness ==
    /\ RoundTripDone
    /\ Len(b32.bytes) = 6
    /\ Len(b32.text) = 16
    /\ b32.decoded.result = b32.bytes

\* The characters base32_decode takes: A-Z and 2-7.
Base32Chars ==
    {"A", "B", "C", "D", "E", "F", "G", "H", "I", "J", "K", "L", "M", "N", "O", "P",
     "Q", "R", "S", "T", "U", "V", "W", "X", "Y", "Z", "2", "3", "4", "5", "6", "7"}

\* The places of the run of '=' the text ends with.
PadRun(text) == {i \in 1..Len(text) : \A j \in i..Len(text) : text[j] = "="}

\* The text is one base32_decode has to reject.
Rejected(text) ==
    \/ Len(text) = 0
    \/ Len(text) % 8 # 0
    \/ \E i \in 1..Len(text) : text[i] \notin Base32Chars \cup {"="}
    \/ \E i \in 1..Len(text) : text[i] = "=" /\ i \notin PadRun(text)
    \/ Cardinality(PadRun(text)) \notin {0, 1, 3, 4, 6}

\* C27: base32_decode of a text returns null and size 0 when the text is
\* empty, not a multiple of 8 long, holds a character that is neither of
\* A-Z, 2-7 nor '=', holds '=' before the run it ends with, or ends with a
\* run of '=' of a length other than 0, 1, 3, 4, 6; it returns size bytes,
\* one or more, for every other text.
C27_DecodeTotalOrReject ==
    (b32.op = "decode" /\ b32.text # NoText)
       => /\ Rejected(b32.text)
             => (b32.decoded.result = NoBytes /\ b32.decoded.size = 0)
          /\ ~Rejected(b32.text)
             => /\ b32.decoded.result # NoBytes
                /\ b32.decoded.size >= 1
                /\ Len(b32.decoded.result) = b32.decoded.size
                /\ \A m \in 1..b32.decoded.size : b32.decoded.result[m] \in 0..255

\* base32_decode has rejected a text of 8 characters for a '=' before its
\* trailing run alone.
C27_Witness ==
    /\ b32.op = "decode"
    /\ b32.text = <<"A", "A", "=", "A", "=", "=", "=", "=">>
    /\ b32.decoded = [result |-> NoBytes, size |-> 0]

(***************************************************************************)
(*        TWO THREADS IN create_cms_store  (src/storage.c)                 *)
(*                                                                         *)
(* Each of two threads calls create_cms_store once on the catalog          *)
(* init_storage has allocated.  The call is followed in two steps: the     *)
(* scan of the list (storage.c:34-43) and the allocation and linking of    *)
(* the new entry (storage.c:44-62).  create_cms_store takes no lock; the   *)
(* callers either call it as it is or hold one mutex of their own around   *)
(* the call.                                                               *)
(***************************************************************************)

Threads == {1, 2}

\* No return value yet: no REDIS_RC.
Pending == REDIS_OK + 1

RaceInit ==
    /\ g_initialized = FALSE
    /\ \E head_is_null \in BOOLEAN :
          g_cms_storage = [head_is_null |-> head_is_null, nodes |-> <<>>]
    /\ store_crashed = FALSE
    /\ store_made = 0
    /\ store_last = [op |-> "init_storage", rc |-> REDIS_OK]
    /\ \E locked \in BOOLEAN, name \in [Threads -> SketchNames] :
          race = [locked |-> locked, holder |-> 0,
                  pc |-> [t \in Threads |-> "call"], name |-> name,
                  prev |-> [t \in Threads |-> 0],
                  rc |-> [t \in Threads |-> Pending], overlap |-> FALSE]

\* What a step of a thread leaves alone.
notRace == <<g_initialized, store_last, slVars, cmsVars, geoVars, setupVars, b32Vars,
            serverVars, replicaVars, rngVars>>

\* The caller's pthread_mutex_lock before its call.
Acquire(t) ==
    /\ race.locked
    /\ race.pc[t] = "call"
    /\ race.holder = 0
    /\ race' = [race EXCEPT !.holder = t, !.pc[t] = "entered"]
    /\ UNCHANGED <<g_cms_storage, store_crashed, store_made, notRace>>

\* The holder of the mutex after the return of the thread's call.
Released(t) == IF race.holder = t THEN 0 ELSE race.holder

\* storage.c:34-43: the walk from the head; prev ends on the last node.
Scan(t) ==
    /\ ~store_crashed
    /\ race.pc[t] = IF race.locked THEN "entered" ELSE "call"
    /\ IF HeadPointsNowhere(g_cms_storage)
       THEN /\ store_crashed' = TRUE
            /\ race' = [race EXCEPT !.pc[t] = "crashed"]
       ELSE /\ UNCHANGED store_crashed
            /\ IF ScanFinds(g_cms_storage.nodes, race.name[t])
               THEN race' = [race EXCEPT !.pc[t] = "returned",
                                         !.rc[t] = REDIS_CMS_SKETCH_EXISTED,
                                         !.holder = Released(t)]
               ELSE race' = [race EXCEPT
                               !.pc[t] = "scanned",
                               !.prev[t] = Len(g_cms_storage.nodes),
                               !.overlap = @ \/ \E u \in Threads \ {t} :
                                                   race.pc[u] = "scanned"]
    /\ UNCHANGED <<g_cms_storage, store_made, notRace>>

\* storage.c:44-62: the new sketch and entry, linked after prev, or as the
\* head when prev is null; whatever followed there is no longer in the list.
LinkEntry(t, terminated) ==
    /\ ~store_crashed
    /\ race.pc[t] = "scanned"
    /\ g_cms_storage' =
          [g_cms_storage EXCEPT
             !.nodes = Append(SubSeq(@, 1, race.prev[t]),
                              [name |-> race.name[t], terminated |-> terminated,
                               container |-> NewSketch(store_made + 1)])]
    /\ store_made' = store_made + 1
    /\ race' = [race EXCEPT !.pc[t] = "returned", !.rc[t] = REDIS_OK,
                            !.holder = Released(t)]
    /\ UNCHANGED <<store_crashed, notRace>>

RaceNext ==
    \E t \in Threads :
       \/ Acquire(t)
       \/ Scan(t)
       \/ \E terminated \in BOOLEAN : LinkEntry(t, terminated)

RaceIdle == race = [op |-> "none"]

\* ---- what the claim about the two threads speaks of ----

BothReturned == \A t \in Threads : race.pc[t] = "returned"

SameName == race.name[1] = race.name[2]

Successes == {t \in Threads : race.rc[t] = REDIS_OK}

EntriesNamed(name) ==
    {i \in 1..Len(g_cms_storage.nodes) : g_cms_storage.nodes[i].name = name}

\* C28: two threads create the same name, which the catalog does not hold.
\* Without a lock, when both scans have ended before either entry is linked,
\* both calls return REDIS_OK and the catalog is left with two entries of
\* that name or without one of the two entries made.  When the callers hold
\* one mutex around the call, both calls return and exactly one of them
\* returns REDIS_OK.
C28_RaceWithoutLockOneWinnerWithLock ==
    SameName
       => /\ (~race.locked /\ race.overlap /\ BothReturned)
             => /\ Successes = Threads
                /\ \/ Cardinality(EntriesNamed(race.name[1])) = 2
                   \/ Len(g_cms_storage.nodes) < store_made
          /\ race.locked
             => /\ ~store_crashed
                /\ BothReturned => Cardinality(Successes) = 1

(***************************************************************************)
(*             THE SERVER PROCESS  (src/server.c, src/serialize.h)         *)
(*                                                                         *)
(* main creates the server and hands it process_request; from then on the  *)
(* process does nothing but answer requests.  No function of src/ calls    *)
(* init_storage, so the catalog is what the static initializers leave:     *)
(* g_cms_storage is the null pointer.                                      *)
(*                                                                         *)
(* A request is what the serializer's tokenizer takes from the buffer: the *)
(* word before the first '.' or ' ', whether a '.' follows it, the word    *)
(* after the '.', and the first argument.  A word is the sequence of its   *)
(* characters.                                                             *)
(***************************************************************************)

\* Requests one process answers.
MaxRequests == 4

PING == <<"P", "I", "N", "G">>
CMS == <<"C", "M", "S">>
INITBYDIM == <<"I", "N", "I", "T", "B", "Y", "D", "I", "M">>
INITBYPROB == <<"I", "N", "I", "T", "B", "Y", "P", "R", "O", "B">>
INCRBY == <<"I", "N", "C", "R", "B", "Y">>
QUERY == <<"Q", "U", "E", "R", "Y">>

\* The requests clients send: commands the server knows, commands it does
\* not, a command name with more characters after it, and a CMS command
\* with and without a sub-command.
Requests ==
    [cmd_type : {PING, Append(PING, "S"), CMS, <<"G", "E", "T">>, <<"P">>},
     has_dot : BOOLEAN,
     cmd_subtype : {INITBYDIM, Append(INITBYDIM, "S"), INITBYPROB, INCRBY, QUERY,
                    <<"I", "N", "F", "O">>},
     name : SketchNames]

\* __strcmp(l, r, cmp_size) with l a buffer that holds a word and its
\* terminating byte, r a literal and cmp_size the literal's length: true
\* when the first cmp_size bytes agree.  A shorter word differs from the
\* literal at its terminating byte at the latest.
StrCmp(word, literal) ==
    /\ Len(word) >= Len(literal)
    /\ SubSeq(word, 1, Len(literal)) = literal

\* The sub-commands __strcmp can find in the 16 bytes of cmd_subtype.
SubCommands == {INITBYDIM, INITBYPROB, INCRBY, QUERY, <<>>}

\* serializer(buffer, buf_size).  Without a '.' in the request cmd_subtype
\* is never written: subtype_read is what its bytes read as.  The Command
\* keeps the address of the serializer's local array args: name_read is
\* what its first element reads as after the serializer has returned.
Serializer(request, subtype_read, name_read) ==
    LET cmd_subtype == IF request.has_dot THEN request.cmd_subtype ELSE subtype_read
        args == <<name_read, 100, 5>>
    IN IF StrCmp(request.cmd_type, PING)
       THEN [type |-> CMD_PING, sub_cmd |-> -1, arg |-> <<>>]
       ELSE IF StrCmp(request.cmd_type, CMS)
       THEN IF StrCmp(cmd_subtype, INITBYDIM)
            THEN [type |-> CMD_CMS, sub_cmd |-> CMS_INITBYDIM, arg |-> args]
            ELSE IF StrCmp(cmd_subtype, INITBYPROB)
            THEN [type |-> CMD_CMS, sub_cmd |-> CMS_INITBYPROB, arg |-> args]
            ELSE IF StrCmp(cmd_subtype, INCRBY)
            THEN [type |-> CMD_CMS, sub_cmd |-> CMS_INCRBY, arg |-> args]
            ELSE IF StrCmp(cmd_subtype, QUERY)
            THEN [type |-> CMD_CMS, sub_cmd |-> CMS_QUERY, arg |-> args]
            ELSE NoCommand
       ELSE NoCommand

\* REDIS_SUCCESS(rc)
REDIS_SUCCESS(rc) == rc >= REDIS_OK

\* The null pointer process_request returns.
NoResponse == [null |-> TRUE]

\* The bytes of a response: its size, the return code in its first 4 bytes
\* and the text that follows them.
Response(rc, text) == [size |-> 256, rc |-> rc, text |-> text]

\* What process_request returns when handle_command returned rc.
ProcessRequestReturns(rc) ==
    IF REDIS_SUCCESS(rc) THEN Response(rc, "")
    ELSE IF rc = REDIS_CMD_NULL THEN Response(rc, "Command generation failed")
    ELSE NoResponse

\* The process at its start, before the first request.
ServerInit ==
    /\ StoreInit
    /\ srv_sent = <<>>

\* process_request(request, req_size, res_size).  A call that does not
\* return ends the process: nothing is sent for it.
ProcessRequest(request, subtype_read, name_read, terminated) ==
    /\ Len(srv_sent) < MaxRequests
    /\ HandleCommand(Serializer(request, subtype_read, name_read), terminated)
    /\ srv_sent' = IF store_crashed' THEN srv_sent
                   ELSE Append(srv_sent, ProcessRequestReturns(store_last'.rc))

ServerNext ==
    \E request \in Requests, subtype_read \in SubCommands,
       name_read \in SketchNames, terminated \in BOOLEAN :
       ProcessRequest(request, subtype_read, name_read, terminated)

ServerIdle == srv_sent = <<>>

\* ---- what the server claims speak of ----

\* The catalog is an allocated list whose head is null or the first entry.
WellFormed(storage) == storage # NoList /\ ~HeadPointsNowhere(storage)

\* C31: whenever create_cms_store runs in the server process, the catalog has
\* been allocated and initialized to a well-formed list before.
C31_CatalogInitializedBeforeCreate ==
    [][store_last'.op = "create" => WellFormed(g_cms_storage)]_vars

\* C36: every request process_request handles yields a response of 256
\* bytes whose first 4 bytes are the code handle_command returned, for a
\* failing command too; no request is left without a response.
C36_EveryRequestIsAnswered ==
    [][/\ ~store_crashed'
       /\ Len(srv_sent') = Len(srv_sent) + 1
       /\ LET response == srv_sent'[Len(srv_sent')]
          IN /\ response # NoResponse
             /\ response.size = 256
             /\ response.rc = store_last'.rc]_vars

(***************************************************************************)
(*                            SPECIFICATIONS                               *)
(***************************************************************************)

InitSL == SLInit /\ CMSIdle /\ GeoIdle /\ StoreIdle /\ SetupIdle /\ B32Idle /\ RaceIdle /\ ServerIdle /\ ReplicaIdle /\ RngIdle
NextSL == SLNext
SpecSL == InitSL /\ [][NextSL]_vars

InitSLDestroy == SLInit /\ CMSIdle /\ GeoIdle /\ StoreIdle /\ SetupIdle /\ B32Idle /\ RaceIdle /\ ServerIdle /\ ReplicaIdle /\ RngIdle
NextSLDestroy == SLDestroyNext
SpecSLDestroy == InitSLDestroy /\ [][NextSLDestroy]_vars

InitCMS == CMSInit /\ SLIdle /\ GeoIdle /\ StoreIdle /\ SetupIdle /\ B32Idle /\ RaceIdle /\ ServerIdle /\ ReplicaIdle /\ RngIdle
NextCMS == CMSNext
SpecCMS == InitCMS /\ [][NextCMS]_vars

InitGeo == GeoInit /\ SLIdle /\ CMSIdle /\ StoreIdle /\ SetupIdle /\ B32Idle /\ RaceIdle /\ ServerIdle /\ ReplicaIdle /\ RngIdle
NextGeo == GeoNext
SpecGeo == InitGeo /\ [][NextGeo]_vars

InitGeoAdjacent == GeoInit /\ SLIdle /\ CMSIdle /\ StoreIdle /\ SetupIdle /\ B32Idle /\ RaceIdle /\ ServerIdle /\ ReplicaIdle /\ RngIdle
NextGeoAdjacent == GeoAdjacentNext
SpecGeoAdjacent == InitGeoAdjacent /\ [][NextGeoAdjacent]_vars

InitStore == StoreInit /\ SLIdle /\ CMSIdle /\ GeoIdle /\ SetupIdle /\ B32Idle /\ RaceIdle /\ ServerIdle /\ ReplicaIdle /\ RngIdle
NextStore == StoreNext
SpecStore == InitStore /\ [][NextStore]_vars

InitSetup == SetupInit /\ SLIdle /\ CMSIdle /\ GeoIdle /\ StoreIdle /\ B32Idle /\ RaceIdle /\ ServerIdle /\ ReplicaIdle /\ RngIdle
NextSetup == SetupNext
SpecSetup == InitSetup /\ [][NextSetup]_vars

InitB32 == B32Init /\ SLIdle /\ CMSIdle /\ GeoIdle /\ StoreIdle /\ SetupIdle /\ RaceIdle /\ ServerIdle /\ ReplicaIdle /\ RngIdle
NextB32 == B32Next
SpecB32 == InitB32 /\ [][NextB32]_vars

InitRace == RaceInit /\ SLIdle /\ CMSIdle /\ GeoIdle /\ SetupIdle /\ B32Idle /\ ServerIdle /\ ReplicaIdle /\ RngIdle
NextRace == RaceNext
SpecRace == InitRace /\ [][NextRace]_vars

InitReplica == ReplicaInit /\ SLIdle /\ GeoIdle /\ StoreIdle /\ SetupIdle /\ B32Idle /\ RaceIdle /\ ServerIdle /\ RngIdle
NextReplica == ReplicaNext
SpecReplica == InitReplica /\ [][NextReplica]_vars

InitRng == RngInit /\ SLIdle /\ CMSIdle /\ GeoIdle /\ StoreIdle /\ SetupIdle /\ B32Idle /\ RaceIdle /\ ServerIdle /\ ReplicaIdle
NextRng == RngNext
SpecRng == InitRng /\ [][NextRng]_vars

InitServer == ServerInit /\ SLIdle /\ CMSIdle /\ GeoIdle /\ SetupIdle /\ B32Idle /\ RaceIdle /\ ReplicaIdle /\ RngIdle
NextServer == ServerNext
SpecServer == InitServer /\ [][NextServer]_vars

=============================================================================
